---- MODULE Spec2Model ----
(***************************************************************************)
(* Verification model of the Newton controller (NewtonControllerBase) and  *)
(* of FvBaseDiscretization: its intensive-quantity cache (SpecCache, and   *)
(* SpecHistory with updateFailed and the resize), the life cycle of its    *)
(* solution vectors and cache with update(solver) (SpecModel) and the      *)
(* assembly of the global residual (SpecAssembly). The parts have their    *)
(* own variables and their own specification; each specification keeps     *)
(* the other parts' variables fixed.                                       *)
(*                                                                         *)
(* The Newton controller.                                                  *)
(*                                                                         *)
(* Scalars are modelled exactly, as fixed-point integers or as fractions:  *)
(*   - physicalness values are counted in tenths (PhysOne is 1.0);         *)
(*   - norms, defects and the tolerance are counted in units of 1e-6;      *)
(*   - _oneByMagnitude and step sizes are fractions <<num, den>>.          *)
(* Comparisons of products are done by cross-multiplication, so no         *)
(* rounding of the double arithmetic is modelled.                          *)
(*                                                                         *)
(* The controller is driven by a Newton method whose loop is not part of   *)
(* these sources. Its calls are modelled in any order, except that         *)
(*   - newtonProceed and newtonEndStep are called between newtonBegin and  *)
(*     the end of the solve (newtonProceed returning false, newtonFail),   *)
(*   - newtonProceed is asked at most once per iterate,                    *)
(*   - newtonConverged, which dereferences _method, is called only after   *)
(*     newtonBegin has set it.                                             *)
(* newtonEndStep may follow newtonEndStep without a newtonProceed between. *)
(***************************************************************************)
EXTENDS Integers, Sequences, FiniteSets, TLC

VARIABLES
    numSteps,           \* _numSteps
    tolerance,          \* _tolerance, in units of 1e-6
    targetSteps,        \* _targetSteps
    maxSteps,           \* _maxSteps
    curPhysicalness,    \* _curPhysicalness, in tenths
    maxPhysicalness,    \* _maxPhysicalness, in tenths
    oneByMagnitude,     \* _oneByMagnitude, a fraction <<num, den>>
    probationCount,     \* _probationCount
    method,             \* _method: "uninitialized" or "valid"
    deflectionTwoNorm,  \* _method->deflectionTwoNorm(), in units of 1e-6
    phase,              \* where the Newton method is in its loop: "idle",
                        \* "iterate" (an iterate waits to be judged) or "step"
    probationReturns,   \* continuations granted on probation since newtonBegin
    ret,                \* the last call: its name, argument and return value
    enableIntensiveQuantitiesCache,  \* parameter EnableIntensiveQuantityCache
    enableThermodynamicHints,        \* parameter EnableThermodynamicHints
    historySize,                     \* property TimeDiscHistorySize
    numGridDof,                      \* asImp_().numGridDof()
    intensiveQuantityCache,          \* intensiveQuantityCache_[timeIdx][globalIdx]
    intensiveQuantityCacheUpToDate,  \* intensiveQuantityCacheUpToDate_[timeIdx][globalIdx]
    cacheRet,           \* the last call on the cache: name, arguments, result
    solution,                        \* *solution_[timeIdx], one value per DOF
    auxEqModules,                    \* auxEqModules_: numDofs() of each module
    enableGridAdaptation,            \* enableGridAdaptation_
    written,            \* per DOF: the values updateCachedIntensiveQuantities
                        \* has been called with since the construction
    updating,           \* where update(solver) is: "outside", in solver.apply()
                        \* ("apply"), or past it with its local converged
                        \* true ("converged") or false ("notConverged")
    numThreads,         \* worker threads of the parallel region
    owner,              \* rank of the process each element is interior to
    dest,               \* dest[globalI] of this process (rank 0), numEq = 1
    mutex,              \* the thread that holds mutex, or NoThread
    threadedElemIt,     \* the element threadedElemIt hands out next
    workers,            \* per thread: position in the loop body, elemIt,
                        \* residual, dofIdx and the value loaded for +=
    evaluated,          \* per element: calls of eval in this pass
    merged,             \* per element: completed additions to dest in this pass
    region,             \* "outside" globalResidual, in its "parallel" region,
                        \* left by an exception ("thrown") or "terminated"
    numPasses,          \* calls of globalResidual that returned
    result2,            \* the square of what the last call returned
    previous,           \* dest and result2 of the call before the last one
    tmp                 \* tmp of globalResidual(dest, u), NoCopy outside of it

controllerVars ==
    <<numSteps, tolerance, targetSteps, maxSteps, curPhysicalness,
      maxPhysicalness, oneByMagnitude, probationCount, method,
      deflectionTwoNorm, phase, probationReturns, ret>>

cacheVars ==
    <<enableIntensiveQuantitiesCache, enableThermodynamicHints, historySize,
      numGridDof, intensiveQuantityCache, intensiveQuantityCacheUpToDate,
      cacheRet, solution, auxEqModules, enableGridAdaptation, written,
      updating>>

assemblyVars ==
    <<numThreads, owner, dest, mutex, threadedElemIt, workers, evaluated,
      merged, region, numPasses, result2, previous, tmp>>

vars == <<controllerVars, cacheVars, assemblyVars>>

config == <<tolerance, targetSteps, maxSteps>>

(***************************************************************************)
(* Units, bounds and input sets.                                           *)
(***************************************************************************)
Micro == 10^6                 \* 1.0 in units of 1e-6
PhysOne == 2 * 5              \* 1.0 in tenths
Eps == 10                     \* the 1e-5 of newtonBegin, in units of 1e-6
MaxExtraSteps == 2            \* newtonEndStep is taken up to _maxSteps + MaxExtraSteps

Min(a, b) == IF a <= b THEN a ELSE b
Max(a, b) == IF a >= b THEN a ELSE b

\* (tolerance, targetSteps, maxSteps) given to the constructor; the first is
\* the default of NewtonController. All satisfy maxSteps > targetSteps + 3.
Configs == { <<10, 8, 12>>, <<1, 1, 5>> }
\* values of _physicalness(u): 0.0, 0.5, 0.8, 0.9, 1.0 and 1.2
Physicalnesses == {0, 5, 8, 9, 10, 12}
\* values of deflectionTwoNorm(): 1e-6 and 1.1e-5
Deflections == {1, 11}
\* values of (*u).two_norm(): 0 and 1.0
Norms == {0, Micro}
\* previous time step sizes
TimeSteps == {1, 100}
\* what an uninitialized int member may hold
UninitializedInts == {-3, 0, 2}
\* what an uninitialized Scalar member may hold
UninitializedScalars == { <<0, 1>>, <<Micro, 3>> }

Ret(op, arg, val, phys, size) ==
    [op |-> op, arg |-> arg, val |-> val, phys |-> phys, size |-> size]

NoSize == <<0, 1>>

\* result and arguments of a call on the cache; a result is a pointer
\* <<timeIdx, globalIdx>> into intensiveQuantityCache_ or Null
CacheRet(op, globalIdx, timeIdx, arg, val) ==
    [op |-> op, globalIdx |-> globalIdx, timeIdx |-> timeIdx, arg |-> arg,
     val |-> val]

Null == <<-1, -1>>

\* a vector of n entries, all x
Filled(n, x) == [i \in 0..(n - 1) |-> x]

\* the cache part while the controller is looked at: no discretization yet
CacheAbsent ==
    /\ enableIntensiveQuantitiesCache = FALSE
    /\ enableThermodynamicHints = FALSE
    /\ historySize = 2
    /\ numGridDof = 0
    /\ intensiveQuantityCache = Filled(2, Filled(0, 0))
    /\ intensiveQuantityCacheUpToDate = Filled(2, Filled(0, FALSE))
    /\ cacheRet = CacheRet("none", 0, 0, 0, Null)
    /\ solution = Filled(2, Filled(0, 0))
    /\ auxEqModules = <<>>
    /\ enableGridAdaptation = FALSE
    /\ written = <<>>
    /\ updating = "outside"

NoThread == 0
\* no call of globalResidual(dest, u) is under way
NoCopy == <<>>

\* the assembly part while another part is looked at: no call of
\* globalResidual
AssemblyAbsent ==
    /\ numThreads = 1
    /\ owner = <<>>
    /\ dest = <<>>
    /\ mutex = NoThread
    /\ threadedElemIt = 0
    /\ workers = <<>>
    /\ evaluated = <<>>
    /\ merged = <<>>
    /\ region = "outside"
    /\ numPasses = 0
    /\ result2 = 0
    /\ previous = <<>>
    /\ tmp = NoCopy

(***************************************************************************)
(* NewtonControllerBase(tolerance, targetSteps, maxSteps).                 *)
(* _probationCount, _oneByMagnitude and _method are not initialized.       *)
(***************************************************************************)
Init ==
    /\ \E c \in Configs :
        /\ c[3] > c[2] + 3
        /\ tolerance = c[1]
        /\ targetSteps = c[2]
        /\ maxSteps = c[3]
    /\ numSteps = 0
    /\ curPhysicalness = 0
    /\ maxPhysicalness = 0
    /\ probationCount \in UninitializedInts
    /\ oneByMagnitude \in UninitializedScalars
    /\ method = "uninitialized"
    /\ deflectionTwoNorm = 0
    /\ phase = "idle"
    /\ probationReturns = 0
    /\ ret = Ret("NewtonControllerBase", 0, FALSE, FALSE, NoSize)
    /\ CacheAbsent
    /\ AssemblyAbsent

(***************************************************************************)
(* newtonConverged()                                                       *)
(* deflectionTwoNorm()*_oneByMagnitude <= _tolerance, cross-multiplied     *)
(* (the denominator of _oneByMagnitude is positive once newtonBegin ran).  *)
(***************************************************************************)
\* the physicalness is not looked at
newtonConvergedDefectOnly ==
    deflectionTwoNorm * oneByMagnitude[1] <= tolerance * oneByMagnitude[2]

\* a defect equal to the tolerance does not count
newtonConvergedStrict ==
    /\ deflectionTwoNorm * oneByMagnitude[1] < tolerance * oneByMagnitude[2]
    /\ curPhysicalness >= PhysOne

newtonConverged ==
    /\ deflectionTwoNorm * oneByMagnitude[1] <= tolerance * oneByMagnitude[2]
    /\ curPhysicalness >= PhysOne

(***************************************************************************)
(* newtonProceed(u), with u given by its _physicalness(u).                 *)
(***************************************************************************)
\* only one iteration is forced
atLeastOneIteration == numSteps < 1

atLeastTwoIterations == numSteps < 2

\* the budget is taken one step too large
exceededStepsByTwo == numSteps > maxSteps + 1

exceededSteps == numSteps > maxSteps

\* the physicalness is taken as _physicalness(u) gives it
clampPhysicalnessMissing(p) == p

\* std::max in the place of std::min
clampPhysicalnessMax(p) == Max(p, PhysOne)

clampPhysicalness(p) == Min(p, PhysOne)

\* the quotient is taken in int: _numSteps/(_maxSteps - 1)
lessPhysicalThanRequiredIntDiv(p) ==
    p < PhysOne * (numSteps \div (maxSteps - 1))

\* p/10 < ((Scalar) _numSteps)/(_maxSteps - 1), with _maxSteps - 1 > 0
lessPhysicalThanRequired(p) == p * (maxSteps - 1) < numSteps * PhysOne

probationExhausted == probationCount > 1

decayProbation(pc) == Min(0, pc - 1)

Outcome(val, cur, max, prob, phys, onProbation) ==
    [val |-> val, cur |-> cur, max |-> max, prob |-> prob, phys |-> phys,
     onProbation |-> onProbation]

\* an iterate on probation becomes the most physical one
newtonProceedOutcomeKeepingLast(u) ==
    IF atLeastTwoIterations
    THEN Outcome(TRUE, curPhysicalness, maxPhysicalness, probationCount, FALSE, FALSE)
    ELSE IF exceededSteps
    THEN Outcome(FALSE, curPhysicalness, maxPhysicalness, probationCount, FALSE, FALSE)
    ELSE IF newtonConverged
    THEN Outcome(FALSE, curPhysicalness, maxPhysicalness, probationCount, FALSE, FALSE)
    ELSE LET p == clampPhysicalness(u) IN
         IF p <= 0
         THEN Outcome(FALSE, p, maxPhysicalness, probationCount, TRUE, FALSE)
         ELSE IF lessPhysicalThanRequired(p)
         THEN Outcome(FALSE, p, maxPhysicalness, probationCount, TRUE, FALSE)
         ELSE IF p < maxPhysicalness
         THEN IF probationExhausted
              THEN Outcome(FALSE, p, maxPhysicalness, probationCount, TRUE, FALSE)
              ELSE Outcome(TRUE, p, p, probationCount + 1, TRUE, TRUE)
         ELSE Outcome(TRUE, p, p, decayProbation(probationCount), TRUE, FALSE)

newtonProceedOutcome(u) ==
    IF atLeastTwoIterations
    THEN Outcome(TRUE, curPhysicalness, maxPhysicalness, probationCount, FALSE, FALSE)
    ELSE IF exceededSteps
    THEN Outcome(FALSE, curPhysicalness, maxPhysicalness, probationCount, FALSE, FALSE)
    ELSE IF newtonConverged
    THEN Outcome(FALSE, curPhysicalness, maxPhysicalness, probationCount, FALSE, FALSE)
    ELSE LET p == clampPhysicalness(u) IN
         IF p <= 0
         THEN Outcome(FALSE, p, maxPhysicalness, probationCount, TRUE, FALSE)
         ELSE IF lessPhysicalThanRequired(p)
         THEN Outcome(FALSE, p, maxPhysicalness, probationCount, TRUE, FALSE)
         ELSE IF p < maxPhysicalness
         THEN IF probationExhausted
              THEN Outcome(FALSE, p, maxPhysicalness, probationCount, TRUE, FALSE)
              ELSE Outcome(TRUE, p, maxPhysicalness, probationCount + 1, TRUE, TRUE)
         ELSE Outcome(TRUE, p, p, decayProbation(probationCount), TRUE, FALSE)

\* The Newton method asks once per iterate and leaves its loop when the
\* answer is false.
newtonProceed(u) ==
    /\ phase = "iterate"
    /\ LET o == newtonProceedOutcome(u) IN
        /\ curPhysicalness' = o.cur
        /\ maxPhysicalness' = o.max
        /\ probationCount' = o.prob
        /\ probationReturns' =
               IF o.onProbation THEN probationReturns + 1 ELSE probationReturns
        /\ phase' = IF o.val THEN "step" ELSE "idle"
        /\ ret' = Ret("newtonProceed", 0, o.val, o.phys, NoSize)
    /\ UNCHANGED <<numSteps, config, oneByMagnitude, method, deflectionTwoNorm>>
    /\ UNCHANGED <<cacheVars, assemblyVars>>

(***************************************************************************)
(* A call of newtonConverged() by the Newton method.                       *)
(***************************************************************************)
newtonConvergedCall ==
    /\ method = "valid"
    /\ ret' = Ret("newtonConverged", 0, newtonConverged, FALSE, NoSize)
    /\ UNCHANGED <<numSteps, config, curPhysicalness, maxPhysicalness,
                   oneByMagnitude, probationCount, method, deflectionTwoNorm,
                   phase, probationReturns>>
    /\ UNCHANGED <<cacheVars, assemblyVars>>

(***************************************************************************)
(* newtonBegin(method, u): method given by its current deflection, u by    *)
(* its two-norm.                                                           *)
(***************************************************************************)
\* the norm is not kept away from zero
magnitudeUnguarded(norm) == norm

magnitude(norm) == Max(norm, Eps)

newtonBegin(d, norm) ==
    /\ method' = "valid"
    /\ deflectionTwoNorm' = d
    /\ numSteps' = 0
    /\ probationCount' = 0
    /\ maxPhysicalness' = 0
    /\ curPhysicalness' = 0
    /\ oneByMagnitude' = <<Micro, magnitude(norm)>>
    /\ phase' = "iterate"
    /\ probationReturns' = 0
    /\ ret' = Ret("newtonBegin", norm, FALSE, FALSE, NoSize)
    /\ UNCHANGED config
    /\ UNCHANGED <<cacheVars, assemblyVars>>

(***************************************************************************)
(* newtonBeginStep() and newtonEnd() have empty bodies.                    *)
(***************************************************************************)
newtonBeginStep ==
    /\ ret' = Ret("newtonBeginStep", 0, FALSE, FALSE, NoSize)
    /\ UNCHANGED <<numSteps, config, curPhysicalness, maxPhysicalness,
                   oneByMagnitude, probationCount, method, deflectionTwoNorm,
                   phase, probationReturns>>
    /\ UNCHANGED <<cacheVars, assemblyVars>>

newtonEnd ==
    /\ ret' = Ret("newtonEnd", 0, FALSE, FALSE, NoSize)
    /\ UNCHANGED <<numSteps, config, curPhysicalness, maxPhysicalness,
                   oneByMagnitude, probationCount, method, deflectionTwoNorm,
                   phase, probationReturns>>
    /\ UNCHANGED <<cacheVars, assemblyVars>>

(***************************************************************************)
(* newtonSolveLinear(A, x, b): the linear solver is given by the           *)
(* converged flag of its result. The call records each solver.apply with   *)
(* the reduction the solver was built with (residTol = _tolerance/1e8, a   *)
(* fraction) and the flag it came back with.                               *)
(***************************************************************************)
residTol == <<tolerance, 10^8>>

SolverApply(reduction, converged) ==
    [reduction |-> reduction, converged |-> converged]

\* the solver is applied a second time when it did not converge
newtonSolveLinearRetrying(converged) ==
    /\ ret' = Ret("newtonSolveLinear", 0, converged, FALSE, NoSize)
              @@ [applied |-> IF converged
                              THEN <<SolverApply(residTol, converged)>>
                              ELSE <<SolverApply(residTol, converged),
                                     SolverApply(residTol, converged)>>]
    /\ UNCHANGED <<numSteps, config, curPhysicalness, maxPhysicalness,
                   oneByMagnitude, probationCount, method, deflectionTwoNorm,
                   phase, probationReturns>>
    /\ UNCHANGED <<cacheVars, assemblyVars>>

newtonSolveLinear(converged) ==
    /\ ret' = Ret("newtonSolveLinear", 0, converged, FALSE, NoSize)
              @@ [applied |-> <<SolverApply(residTol, converged)>>]
    /\ UNCHANGED <<numSteps, config, curPhysicalness, maxPhysicalness,
                   oneByMagnitude, probationCount, method, deflectionTwoNorm,
                   phase, probationReturns>>
    /\ UNCHANGED <<cacheVars, assemblyVars>>

(***************************************************************************)
(* newtonEndStep(u, uOld): the physicalness is stored unclamped; the       *)
(* printed defect dereferences _method, d is the deflection the method has *)
(* computed for the new iterate.                                           *)
(***************************************************************************)
\* the step is counted twice
newtonEndStepCountedTwice(u, d) ==
    /\ phase \in {"iterate", "step"}
    /\ numSteps < maxSteps + MaxExtraSteps
    /\ numSteps' = numSteps + 2
    /\ curPhysicalness' = u
    /\ deflectionTwoNorm' = d
    /\ phase' = "iterate"
    /\ ret' = Ret("newtonEndStep", 0, FALSE, TRUE, NoSize)
    /\ UNCHANGED <<config, maxPhysicalness, oneByMagnitude, probationCount,
                   method, probationReturns>>
    /\ UNCHANGED <<cacheVars, assemblyVars>>

newtonEndStep(u, d) ==
    /\ phase \in {"iterate", "step"}
    /\ numSteps < maxSteps + MaxExtraSteps
    /\ numSteps' = numSteps + 1
    /\ curPhysicalness' = u
    /\ deflectionTwoNorm' = d
    /\ phase' = "iterate"
    /\ ret' = Ret("newtonEndStep", 0, FALSE, TRUE, NoSize)
    /\ UNCHANGED <<config, maxPhysicalness, oneByMagnitude, probationCount,
                   method, probationReturns>>
    /\ UNCHANGED <<cacheVars, assemblyVars>>

(***************************************************************************)
(* newtonFail()                                                            *)
(***************************************************************************)
\* the factor 2 is left out
newtonFailTargetOnly ==
    /\ numSteps' = targetSteps
    /\ phase' = "idle"
    /\ ret' = Ret("newtonFail", 0, FALSE, FALSE, NoSize)
    /\ UNCHANGED <<config, curPhysicalness, maxPhysicalness, oneByMagnitude,
                   probationCount, method, deflectionTwoNorm, probationReturns>>
    /\ UNCHANGED <<cacheVars, assemblyVars>>

newtonFail ==
    /\ numSteps' = targetSteps * 2
    /\ phase' = "idle"
    /\ ret' = Ret("newtonFail", 0, FALSE, FALSE, NoSize)
    /\ UNCHANGED <<config, curPhysicalness, maxPhysicalness, oneByMagnitude,
                   probationCount, method, deflectionTwoNorm, probationReturns>>
    /\ UNCHANGED <<cacheVars, assemblyVars>>

(***************************************************************************)
(* suggestTimeStepSize(oldTimeStep), the result as a fraction:             *)
(*   old/(1 + (n - t)/t)       = old*t / n                                 *)
(*   old*(1 + ((t - n)/t)/1.2) = old*(22t - 10n) / (12t)                   *)
(***************************************************************************)
\* the growth is not damped by 1.2
suggestedSizeUndamped(oldTimeStep) ==
    IF numSteps > targetSteps
    THEN <<oldTimeStep * targetSteps, numSteps>>
    ELSE <<oldTimeStep * (2 * targetSteps - numSteps), targetSteps>>

\* the whole growth factor is divided by 1.2
suggestedSizeOverdamped(oldTimeStep) ==
    IF numSteps > targetSteps
    THEN <<oldTimeStep * targetSteps, numSteps>>
    ELSE <<oldTimeStep * 10 * (2 * targetSteps - numSteps), 12 * targetSteps>>

suggestedSize(oldTimeStep) ==
    IF numSteps > targetSteps
    THEN <<oldTimeStep * targetSteps, numSteps>>
    ELSE <<oldTimeStep * (22 * targetSteps - 10 * numSteps), 12 * targetSteps>>

suggestTimeStepSize(oldTimeStep) ==
    /\ ret' = Ret("suggestTimeStepSize", oldTimeStep, FALSE, FALSE,
                  suggestedSize(oldTimeStep))
    /\ UNCHANGED <<numSteps, config, curPhysicalness, maxPhysicalness,
                   oneByMagnitude, probationCount, method, deflectionTwoNorm,
                   phase, probationReturns>>
    /\ UNCHANGED <<cacheVars, assemblyVars>>

Next ==
    \/ \E u \in Physicalnesses : newtonProceed(u)
    \/ newtonConvergedCall
    \/ \E d \in Deflections, norm \in Norms : newtonBegin(d, norm)
    \/ newtonBeginStep
    \/ newtonEnd
    \/ \E converged \in BOOLEAN : newtonSolveLinear(converged)
    \/ \E u \in Physicalnesses, d \in Deflections : newtonEndStep(u, d)
    \/ newtonFail
    \/ \E oldTimeStep \in TimeSteps : suggestTimeStepSize(oldTimeStep)

Spec == Init /\ [][Next]_vars

(***************************************************************************)
(* Properties of the controller.                                           *)
(***************************************************************************)
\* defectNorm * normalizationMagnitude <= tolerance, from the state
DefectWithinTolerance ==
    deflectionTwoNorm * oneByMagnitude[1] <= tolerance * oneByMagnitude[2]

Physical == curPhysicalness >= PhysOne

Proceeded == ret.op = "newtonProceed"

\* the state the controller owns, as a tuple
controllerState ==
    <<numSteps, tolerance, targetSteps, maxSteps, curPhysicalness,
      maxPhysicalness, oneByMagnitude, probationCount, method>>

C2_TwoIterationsForced ==
    (Proceeded /\ numSteps < 2) => (ret.val /\ phase = "step")

C2_Witness ==
    /\ Proceeded
    /\ numSteps = 1
    /\ ret.val
    /\ DefectWithinTolerance
    /\ Physical

\* C3: with 2 <= stepCount <= maxStepCount and isConverged() true,
\* newtonProceed() returns false and changes neither probationCounter nor
\* maxPhysicalitySoFar.
C3_ConvergedStops ==
    [][ ( /\ ret'.op = "newtonProceed"
          /\ numSteps >= 2
          /\ numSteps <= maxSteps
          /\ DefectWithinTolerance
          /\ Physical )
        => ( /\ ret'.val = FALSE
             /\ probationCount' = probationCount
             /\ maxPhysicalness' = maxPhysicalness ) ]_vars

\* tolerance 1e-5, target 8, max 12, scaled defect 1e-6, physicalness 1.0:
\* stopped at stepCount 3
C3_Witness ==
    /\ Proceeded
    /\ ~ret.val
    /\ config = <<10, 8, 12>>
    /\ numSteps = 3
    /\ deflectionTwoNorm = 1
    /\ oneByMagnitude = <<Micro, Micro>>
    /\ curPhysicalness = PhysOne

\* C4: with stepCount >= 2 and stepCount > maxStepCount, newtonProceed()
\* returns false without asking for the physicalness and without changing
\* the controller state.
C4_ExceededStops ==
    [][ ( /\ ret'.op = "newtonProceed"
          /\ numSteps >= 2
          /\ numSteps > maxSteps )
        => ( /\ ret'.val = FALSE
             /\ ret'.phys = FALSE
             /\ controllerState' = controllerState ) ]_vars

C4_Witness ==
    /\ Proceeded
    /\ numSteps > maxSteps
    /\ ~ret.val
    /\ ~ret.phys

\* C5: with 2 <= stepCount <= maxStepCount and not converged,
\* newtonProceed() asks for the physicalness, clamps it to at most 1, and
\* returns false if it is <= 0 or below stepCount/(maxStepCount-1); so a
\* continuation at stepCount = maxStepCount-1 has physicalness 1.
C5_PhysicalnessRequired ==
    [][ ( /\ ret'.op = "newtonProceed"
          /\ numSteps >= 2
          /\ numSteps <= maxSteps
          /\ ~(DefectWithinTolerance /\ Physical) )
        => ( /\ ret'.phys
             /\ curPhysicalness' <= PhysOne
             /\ ( \/ curPhysicalness' <= 0
                  \/ curPhysicalness' * (maxSteps - 1) < numSteps * PhysOne )
                    => ret'.val = FALSE
             /\ (numSteps = maxSteps - 1 /\ ret'.val)
                    => curPhysicalness' = PhysOne ) ]_vars

C5_Witness ==
    /\ Proceeded
    /\ ret.phys
    /\ ~ret.val
    /\ numSteps = maxSteps - 1
    /\ curPhysicalness > 0
    /\ curPhysicalness < PhysOne

\* C6: with maxStepCount 12 and a maximum of 0.9 so far, a physicalness of
\* 0.5 at iteration 5 sets probationCounter to 1 and continues; a further
\* regression above the required fraction at the next iteration brings
\* probationCounter to 2 and stops.
C6_ProbationScenario ==
    [][ ( /\ ret'.op = "newtonProceed"
          /\ ret'.phys
          /\ maxSteps = 12
          /\ maxPhysicalness = 9 )
        => ( /\ (numSteps = 5 /\ curPhysicalness' = 5)
                    => (probationCount' = 1 /\ ret'.val)
             /\ ( /\ numSteps = 6
                  /\ probationCount = 1
                  /\ curPhysicalness' < maxPhysicalness
                  /\ curPhysicalness' * (maxSteps - 1) >= numSteps * PhysOne )
                    => (probationCount' = 2 /\ ~ret'.val) ) ]_vars

\* C7: within one solve newtonProceed() continues on probation at most twice.
C7_AtMostTwoProbations == probationReturns <= 2

\* C8: in a solve probationCounter is never negative.
C8_ProbationNonNegative == method = "valid" => probationCount >= 0

\* C9: newtonEndStep adds exactly 1 to stepCount, newtonBegin sets it to 0,
\* and newtonProceed, newtonConverged, newtonSolveLinear and
\* suggestTimeStepSize leave it unchanged.
C9_StepCount ==
    [][ /\ ret'.op = "newtonEndStep" => numSteps' = numSteps + 1
        /\ ret'.op = "newtonBegin" => numSteps' = 0
        /\ ret'.op \in {"newtonProceed", "newtonConverged",
                        "newtonSolveLinear", "suggestTimeStepSize"}
               => numSteps' = numSteps ]_vars

C9_Witness ==
    /\ ret.op = "newtonEndStep"
    /\ numSteps = 3

\* C10: newtonBegin, from any state, leaves stepCount, probationCounter,
\* currentPhysicality and maxPhysicalitySoFar at 0 and
\* normalizationMagnitude at 1/max(norm, 1e-5), a division by a positive
\* number.
C10_BeginResets ==
    ret.op = "newtonBegin" =>
        /\ numSteps = 0
        /\ probationCount = 0
        /\ curPhysicalness = 0
        /\ maxPhysicalness = 0
        /\ oneByMagnitude = <<Micro, IF ret.arg >= Eps THEN ret.arg ELSE Eps>>
        /\ oneByMagnitude[2] > 0

\* begun with a zero initial solution
C10_Witness ==
    /\ ret.op = "newtonBegin"
    /\ ret.arg = 0
    /\ oneByMagnitude = <<Micro, Eps>>

Suggested == ret.op = "suggestTimeStepSize"

\* C11: for previousStepSize > 0 suggestTimeStepSize returns more than
\* previousStepSize when stepCount < targetStepCount, exactly
\* previousStepSize*targetStepCount/stepCount (less than previousStepSize)
\* when stepCount > targetStepCount, and exactly previousStepSize when they
\* are equal; the growth factor is 1 + ((target-stepCount)/target)/1.2,
\* that is (12*target + 10*(target-stepCount)) / (12*target).
C11_SuggestedSize ==
    Suggested =>
        LET old == ret.arg
            num == ret.size[1]
            den == ret.size[2]
        IN /\ old > 0
           /\ den > 0
           /\ numSteps < targetSteps => num > old * den
           /\ numSteps > targetSteps =>
                  /\ num < old * den
                  /\ num * numSteps = old * targetSteps * den
           /\ numSteps = targetSteps => num = old * den
           /\ numSteps <= targetSteps =>
                  num * 12 * targetSteps
                      = old * (12 * targetSteps + 10 * (targetSteps - numSteps)) * den

C11_Witness ==
    /\ Suggested
    /\ numSteps = targetSteps
    /\ ret.size[1] = ret.arg * ret.size[2]

\* C12 as claimed: with targetStepCount 8 and stepCount 3,
\* suggestTimeStepSize(100) is approximately 141 (rounds to 141).
C12_About141 ==
    (Suggested /\ targetSteps = 8 /\ numSteps = 3 /\ ret.arg = 100) =>
        /\ 2 * ret.size[1] >= 281 * ret.size[2]
        /\ 2 * ret.size[1] < 283 * ret.size[2]

\* C12: with targetStepCount 8 and stepCount 3, suggestTimeStepSize(100)
\* is 100*(1 + ((8-3)/8)/1.2) = 14600/96, which is approximately 152.
C12_About152 ==
    (Suggested /\ targetSteps = 8 /\ numSteps = 3 /\ ret.arg = 100) =>
        /\ 96 * ret.size[1] = 14600 * ret.size[2]
        /\ 2 * ret.size[1] >= 303 * ret.size[2]
        /\ 2 * ret.size[1] < 305 * ret.size[2]

\* the solve has stopped at stepCount 3 and the size is asked for
C12_Witness ==
    /\ Suggested
    /\ phase = "idle"
    /\ targetSteps = 8
    /\ numSteps = 3
    /\ ret.arg = 100

\* C13: newtonFail sets stepCount to 2*targetStepCount whatever it was, and
\* a suggestTimeStepSize(p) that follows returns exactly p/2.
C13_FailHalves ==
    [][ /\ ret'.op = "newtonFail" => numSteps' = 2 * targetSteps
        /\ (ret.op = "newtonFail" /\ ret'.op = "suggestTimeStepSize") =>
               /\ ret'.arg > 0
               /\ 2 * ret'.size[1] = ret'.arg * ret'.size[2]
               /\ ret'.size[2] > 0 ]_vars

\* 2*8 = 16 steps are beyond what newtonEndStep reaches with this budget
C13_Witness ==
    /\ Suggested
    /\ config = <<10, 8, 12>>
    /\ numSteps = 16
    /\ ret.size = <<100 * 8, 16>>

\* C14: newtonSolveLinear applies the linear solver exactly once, with the
\* reduction tolerance/1e8, returns the solver's converged flag, and changes
\* nothing of the controller.
C14_SolveLinearDelegates ==
    [][ ret'.op = "newtonSolveLinear" =>
            /\ Len(ret'.applied) = 1
            /\ ret'.applied[1].reduction[1] * 10^8
                   = tolerance * ret'.applied[1].reduction[2]
            /\ ret'.val = ret'.applied[1].converged
            /\ controllerState' = controllerState
            /\ deflectionTwoNorm' = deflectionTwoNorm ]_vars

\* the solver did not converge and was not asked again
C14_Witness ==
    /\ ret.op = "newtonSolveLinear"
    /\ ~ret.val
    /\ Len(ret.applied) = 1
    /\ ~ret.applied[1].converged

(***************************************************************************)
(* The intensive-quantity cache of FvBaseDiscretization.                   *)
(*                                                                         *)
(* IntensiveQuantities objects are modelled by small integers, 0 being a   *)
(* default-constructed one. A vector is a function on 0..size-1. The       *)
(* methods return pointers into intensiveQuantityCache_; a pointer is the  *)
(* pair <<timeIdx, globalIdx>> of the entry it points to, Null is 0.       *)
(* Calls are made with indices inside the grid (globalIdx < numGridDof,    *)
(* timeIdx < historySize).                                                 *)
(***************************************************************************)
\* (historySize, numGridDof) of the discretizations looked at
GridConfigs == { <<2, 2>>, <<2, 1>>, <<3, 1>> }
\* IntensiveQuantities objects handed to the cache
IntensiveQuantities == {1, 2}

TimeIndices == 0..(historySize - 1)
GlobalIndices == 0..(numGridDof - 1)

\* the controller part while the cache is looked at
ControllerAbsent ==
    /\ tolerance = 10
    /\ targetSteps = 8
    /\ maxSteps = 12
    /\ numSteps = 0
    /\ curPhysicalness = 0
    /\ maxPhysicalness = 0
    /\ probationCount = 0
    /\ oneByMagnitude = <<0, 1>>
    /\ method = "uninitialized"
    /\ deflectionTwoNorm = 0
    /\ phase = "idle"
    /\ probationReturns = 0
    /\ ret = Ret("none", 0, FALSE, FALSE, NoSize)

storeIntensiveQuantities ==
    enableIntensiveQuantitiesCache \/ enableThermodynamicHints

\* std::vector::resize: the first entries are kept, new ones are
\* default-constructed
Resized(vec, n, default) ==
    [i \in 0..(n - 1) |-> IF i \in DOMAIN vec THEN vec[i] ELSE default]

(***************************************************************************)
(* FvBaseDiscretization(simulator): the members are empty vectors, then    *)
(* resizeAndResetIntensiveQuantitiesCache_() is called.                    *)
(***************************************************************************)
Constructed(configs) ==
    /\ enableIntensiveQuantitiesCache \in BOOLEAN
    /\ enableThermodynamicHints \in BOOLEAN
    /\ \E c \in configs :
        /\ historySize = c[1]
        /\ numGridDof = c[2]
    /\ intensiveQuantityCache =
           IF storeIntensiveQuantities
           THEN Filled(historySize, Resized(Filled(0, 0), numGridDof, 0))
           ELSE Filled(historySize, Filled(0, 0))
    /\ intensiveQuantityCacheUpToDate =
           IF storeIntensiveQuantities
           THEN Filled(historySize, Filled(numGridDof, FALSE))
           ELSE Filled(historySize, Filled(0, FALSE))
    /\ cacheRet = CacheRet("FvBaseDiscretization", 0, 0, 0, Null)
    /\ solution = Filled(historySize, Filled(numGridDof, 0))
    /\ auxEqModules = <<>>
    /\ written = Filled(numGridDof, {})
    /\ updating = "outside"

FvBaseDiscretization == Constructed(GridConfigs)

\* the cache is looked at on a grid that is not adapted
InitCache ==
    /\ ControllerAbsent
    /\ AssemblyAbsent
    /\ FvBaseDiscretization
    /\ enableGridAdaptation = FALSE

\* what the methods of the cache leave alone
discretizationParameters ==
    <<enableIntensiveQuantitiesCache, enableThermodynamicHints, historySize,
      numGridDof, solution, auxEqModules, enableGridAdaptation, updating>>

\* what the methods of the cache but updateCachedIntensiveQuantities leave
\* alone
cacheParameters == <<discretizationParameters, written>>

(***************************************************************************)
(* thermodynamicHint(globalIdx, timeIdx)                                   *)
(***************************************************************************)
\* the first up-to-date time index, counted from timeIdx2 on
RECURSIVE firstUpToDate(_, _)
firstUpToDate(globalIdx, timeIdx2) ==
    IF timeIdx2 >= historySize
    THEN Null
    ELSE IF intensiveQuantityCacheUpToDate[timeIdx2][globalIdx]
    THEN <<timeIdx2, globalIdx>>
    ELSE firstUpToDate(globalIdx, timeIdx2 + 1)

\* the requested time index is not tried first
thermodynamicHintFirstOnly(globalIdx, timeIdx) ==
    IF ~enableThermodynamicHints
    THEN Null
    ELSE firstUpToDate(globalIdx, 0)

thermodynamicHint(globalIdx, timeIdx) ==
    IF ~enableThermodynamicHints
    THEN Null
    ELSE IF intensiveQuantityCacheUpToDate[timeIdx][globalIdx]
    THEN <<timeIdx, globalIdx>>
    ELSE firstUpToDate(globalIdx, 0)

thermodynamicHintCall(globalIdx, timeIdx) ==
    /\ cacheRet' = CacheRet("thermodynamicHint", globalIdx, timeIdx, 0,
                            thermodynamicHint(globalIdx, timeIdx))
    /\ UNCHANGED <<cacheParameters, intensiveQuantityCache,
                   intensiveQuantityCacheUpToDate>>
    /\ UNCHANGED <<controllerVars, assemblyVars>>

(***************************************************************************)
(* cachedIntensiveQuantities(globalIdx, timeIdx)                           *)
(***************************************************************************)
\* the up-to-date flag is not looked at
cachedIntensiveQuantitiesUnchecked(globalIdx, timeIdx) ==
    IF ~enableIntensiveQuantitiesCache
    THEN Null
    ELSE <<timeIdx, globalIdx>>

\* storeIntensiveQuantities_() is asked in the place of the cache switch
cachedIntensiveQuantitiesWhenStored(globalIdx, timeIdx) ==
    IF \/ ~(enableIntensiveQuantitiesCache \/ enableThermodynamicHints)
       \/ ~intensiveQuantityCacheUpToDate[timeIdx][globalIdx]
    THEN Null
    ELSE <<timeIdx, globalIdx>>

cachedIntensiveQuantities(globalIdx, timeIdx) ==
    IF \/ ~enableIntensiveQuantitiesCache
       \/ ~intensiveQuantityCacheUpToDate[timeIdx][globalIdx]
    THEN Null
    ELSE <<timeIdx, globalIdx>>

cachedIntensiveQuantitiesCall(globalIdx, timeIdx) ==
    /\ cacheRet' = CacheRet("cachedIntensiveQuantities", globalIdx, timeIdx, 0,
                            cachedIntensiveQuantities(globalIdx, timeIdx))
    /\ UNCHANGED <<cacheParameters, intensiveQuantityCache,
                   intensiveQuantityCacheUpToDate>>
    /\ UNCHANGED <<controllerVars, assemblyVars>>

(***************************************************************************)
(* updateCachedIntensiveQuantities(intQuants, globalIdx, timeIdx)          *)
(***************************************************************************)
\* the entry is stored but not marked
updateCachedIntensiveQuantitiesUnmarked(intQuants, globalIdx, timeIdx) ==
    /\ IF ~storeIntensiveQuantities
       THEN UNCHANGED <<intensiveQuantityCache, intensiveQuantityCacheUpToDate>>
       ELSE /\ intensiveQuantityCache' =
                   [intensiveQuantityCache EXCEPT ![timeIdx][globalIdx] = intQuants]
            /\ UNCHANGED intensiveQuantityCacheUpToDate
    /\ cacheRet' = CacheRet("updateCachedIntensiveQuantities", globalIdx,
                            timeIdx, intQuants, Null)
    /\ written' = [written EXCEPT ![globalIdx] = @ \cup {intQuants}]
    /\ UNCHANGED discretizationParameters
    /\ UNCHANGED <<controllerVars, assemblyVars>>

\* only the cache switch is asked
updateCachedIntensiveQuantitiesCacheOnly(intQuants, globalIdx, timeIdx) ==
    /\ IF ~enableIntensiveQuantitiesCache
       THEN UNCHANGED <<intensiveQuantityCache, intensiveQuantityCacheUpToDate>>
       ELSE /\ intensiveQuantityCache' =
                   [intensiveQuantityCache EXCEPT ![timeIdx][globalIdx] = intQuants]
            /\ intensiveQuantityCacheUpToDate' =
                   [intensiveQuantityCacheUpToDate EXCEPT ![timeIdx][globalIdx] = TRUE]
    /\ cacheRet' = CacheRet("updateCachedIntensiveQuantities", globalIdx,
                            timeIdx, intQuants, Null)
    /\ written' = [written EXCEPT ![globalIdx] = @ \cup {intQuants}]
    /\ UNCHANGED discretizationParameters
    /\ UNCHANGED <<controllerVars, assemblyVars>>

updateCachedIntensiveQuantities(intQuants, globalIdx, timeIdx) ==
    /\ IF ~storeIntensiveQuantities
       THEN UNCHANGED <<intensiveQuantityCache, intensiveQuantityCacheUpToDate>>
       ELSE /\ intensiveQuantityCache' =
                   [intensiveQuantityCache EXCEPT ![timeIdx][globalIdx] = intQuants]
            /\ intensiveQuantityCacheUpToDate' =
                   [intensiveQuantityCacheUpToDate EXCEPT ![timeIdx][globalIdx] = TRUE]
    /\ cacheRet' = CacheRet("updateCachedIntensiveQuantities", globalIdx,
                            timeIdx, intQuants, Null)
    /\ written' = [written EXCEPT ![globalIdx] = @ \cup {intQuants}]
    /\ UNCHANGED discretizationParameters
    /\ UNCHANGED <<controllerVars, assemblyVars>>

(***************************************************************************)
(* setIntensiveQuantitiesCacheEntryValidity(globalIdx, timeIdx, newValue)  *)
(***************************************************************************)
\* the whole time index is set
setIntensiveQuantitiesCacheEntryValidityOfAll(globalIdx, timeIdx, newValue) ==
    /\ IF ~storeIntensiveQuantities
       THEN UNCHANGED intensiveQuantityCacheUpToDate
       ELSE intensiveQuantityCacheUpToDate' =
                [intensiveQuantityCacheUpToDate EXCEPT
                     ![timeIdx] = Filled(numGridDof, newValue)]
    /\ cacheRet' = CacheRet("setIntensiveQuantitiesCacheEntryValidity",
                            globalIdx, timeIdx, newValue, Null)
    /\ UNCHANGED <<cacheParameters, intensiveQuantityCache>>
    /\ UNCHANGED <<controllerVars, assemblyVars>>

setIntensiveQuantitiesCacheEntryValidity(globalIdx, timeIdx, newValue) ==
    /\ IF ~storeIntensiveQuantities
       THEN UNCHANGED intensiveQuantityCacheUpToDate
       ELSE intensiveQuantityCacheUpToDate' =
                [intensiveQuantityCacheUpToDate EXCEPT
                     ![timeIdx][globalIdx] = newValue]
    /\ cacheRet' = CacheRet("setIntensiveQuantitiesCacheEntryValidity",
                            globalIdx, timeIdx, newValue, Null)
    /\ UNCHANGED <<cacheParameters, intensiveQuantityCache>>
    /\ UNCHANGED <<controllerVars, assemblyVars>>

(***************************************************************************)
(* shiftIntensiveQuantityCache(numSlots): the loop copies with ascending   *)
(* timeIdx, each assignment seeing the ones before it.                     *)
(***************************************************************************)
RECURSIVE shiftedFrom(_, _, _)
shiftedFrom(array, timeIdx, numSlots) ==
    IF timeIdx >= historySize - numSlots
    THEN array
    ELSE shiftedFrom([array EXCEPT ![timeIdx + numSlots] = array[timeIdx]],
                     timeIdx + 1, numSlots)

shiftIntensiveQuantityCache(numSlots) ==
    /\ IF ~storeIntensiveQuantities
       THEN UNCHANGED <<intensiveQuantityCache, intensiveQuantityCacheUpToDate>>
       ELSE /\ intensiveQuantityCache' =
                   shiftedFrom(intensiveQuantityCache, 0, numSlots)
            /\ intensiveQuantityCacheUpToDate' =
                   [shiftedFrom(intensiveQuantityCacheUpToDate, 0, numSlots)
                        EXCEPT ![0] = [i \in DOMAIN @ |-> FALSE]]
    /\ cacheRet' = CacheRet("shiftIntensiveQuantityCache", 0, 0, numSlots, Null)
    /\ UNCHANGED cacheParameters
    /\ UNCHANGED <<controllerVars, assemblyVars>>

NextCache ==
    \/ \E globalIdx \in GlobalIndices, timeIdx \in TimeIndices :
           thermodynamicHintCall(globalIdx, timeIdx)
    \/ \E globalIdx \in GlobalIndices, timeIdx \in TimeIndices :
           cachedIntensiveQuantitiesCall(globalIdx, timeIdx)
    \/ \E intQuants \in IntensiveQuantities,
          globalIdx \in GlobalIndices, timeIdx \in TimeIndices :
           updateCachedIntensiveQuantities(intQuants, globalIdx, timeIdx)
    \/ \E globalIdx \in GlobalIndices, timeIdx \in TimeIndices,
          newValue \in BOOLEAN :
           setIntensiveQuantitiesCacheEntryValidity(globalIdx, timeIdx, newValue)
    \/ \E numSlots \in 1..historySize : shiftIntensiveQuantityCache(numSlots)

SpecCache == InitCache /\ [][NextCache]_vars

(***************************************************************************)
(* Properties of the cache.                                                *)
(***************************************************************************)
\* the IntensiveQuantities object a pointer points to
Deref(ptr) == intensiveQuantityCache[ptr[1]][ptr[2]]

\* every entry but (timeIdx, globalIdx) has the same value and flag after
\* the step as before
OtherEntriesUnchanged(timeIdx, globalIdx) ==
    \A t \in TimeIndices : \A g \in DOMAIN intensiveQuantityCache[t] :
        (t # timeIdx \/ g # globalIdx) =>
            /\ intensiveQuantityCache'[t][g] = intensiveQuantityCache[t][g]
            /\ intensiveQuantityCacheUpToDate'[t][g]
                   = intensiveQuantityCacheUpToDate[t][g]

\* C15: cachedIntensiveQuantities returns an entry only if that entry's
\* up-to-date flag is true at the call; with the flag false it returns a
\* miss although a stale value is stored.
C15_GetOnlyUpToDate ==
    cacheRet.op = "cachedIntensiveQuantities" =>
        LET g == cacheRet.globalIdx
            t == cacheRet.timeIdx
        IN /\ cacheRet.val # Null =>
                  /\ cacheRet.val = <<t, g>>
                  /\ intensiveQuantityCacheUpToDate[t][g]
           /\ (storeIntensiveQuantities /\ ~intensiveQuantityCacheUpToDate[t][g])
                  => cacheRet.val = Null

\* a miss on an entry that still holds a stored value
C15_Witness ==
    /\ cacheRet.op = "cachedIntensiveQuantities"
    /\ enableIntensiveQuantitiesCache
    /\ cacheRet.val = Null
    /\ ~intensiveQuantityCacheUpToDate[cacheRet.timeIdx][cacheRet.globalIdx]
    /\ intensiveQuantityCache[cacheRet.timeIdx][cacheRet.globalIdx] = 2

\* C16: with caching enabled, update(slot, dof, V) changes no other entry,
\* and a get(slot, dof) right after it returns the entry, which holds V.
C16_UpdateThenGet ==
    [][ /\ (cacheRet'.op = "updateCachedIntensiveQuantities"
                /\ enableIntensiveQuantitiesCache) =>
               /\ OtherEntriesUnchanged(cacheRet'.timeIdx, cacheRet'.globalIdx)
               /\ intensiveQuantityCache'[cacheRet'.timeIdx][cacheRet'.globalIdx]
                      = cacheRet'.arg
        /\ ( /\ cacheRet.op = "updateCachedIntensiveQuantities"
             /\ enableIntensiveQuantitiesCache
             /\ cacheRet'.op = "cachedIntensiveQuantities"
             /\ cacheRet'.globalIdx = cacheRet.globalIdx
             /\ cacheRet'.timeIdx = cacheRet.timeIdx ) =>
               /\ cacheRet'.val = <<cacheRet.timeIdx, cacheRet.globalIdx>>
               /\ intensiveQuantityCache'[cacheRet'.val[1]][cacheRet'.val[2]]
                      = cacheRet.arg ]_vars

\* updated with 2 beside another up-to-date entry holding 1
C16_Witness ==
    /\ cacheRet.op = "updateCachedIntensiveQuantities"
    /\ enableIntensiveQuantitiesCache
    /\ cacheRet.arg = 2
    /\ cachedIntensiveQuantities(cacheRet.globalIdx, cacheRet.timeIdx) # Null
    /\ Deref(cachedIntensiveQuantities(cacheRet.globalIdx, cacheRet.timeIdx)) = 2
    /\ \E t \in TimeIndices : \E g \in GlobalIndices :
           /\ <<t, g>> # <<cacheRet.timeIdx, cacheRet.globalIdx>>
           /\ intensiveQuantityCacheUpToDate[t][g]
           /\ intensiveQuantityCache[t][g] = 1

ValiditySetOnly ==
    /\ intensiveQuantityCache' = intensiveQuantityCache
    /\ OtherEntriesUnchanged(cacheRet'.timeIdx, cacheRet'.globalIdx)
    /\ storeIntensiveQuantities =>
           intensiveQuantityCacheUpToDate'[cacheRet'.timeIdx][cacheRet'.globalIdx]
               = cacheRet'.arg

\* C18 as claimed: setIntensiveQuantitiesCacheEntryValidity sets only the
\* flag of the one entry; after invalidate(0, d, false), get(0, d) is a miss
\* and getHint(0, d) returns the slot-1 entry when slot 1 is up to date for d.
C18_InvalidateKeepsHint ==
    [][ cacheRet'.op = "setIntensiveQuantitiesCacheEntryValidity" =>
            /\ ValiditySetOnly
            /\ \A d \in GlobalIndices :
                   ( /\ cacheRet'.globalIdx = d
                     /\ cacheRet'.timeIdx = 0
                     /\ cacheRet'.arg = FALSE ) =>
                       /\ cachedIntensiveQuantities(d, 0)' = Null
                       /\ (storeIntensiveQuantities
                             /\ intensiveQuantityCacheUpToDate'[1][d]) =>
                              thermodynamicHint(d, 0)' = <<1, d>> ]_vars

\* C18: as above, the hint being returned when EnableThermodynamicHints is
\* on; with hints off getHint(0, d) returns none.
C18_InvalidateKeepsHintIfEnabled ==
    [][ cacheRet'.op = "setIntensiveQuantitiesCacheEntryValidity" =>
            /\ ValiditySetOnly
            /\ \A d \in GlobalIndices :
                   ( /\ cacheRet'.globalIdx = d
                     /\ cacheRet'.timeIdx = 0
                     /\ cacheRet'.arg = FALSE ) =>
                       /\ cachedIntensiveQuantities(d, 0)' = Null
                       /\ (storeIntensiveQuantities
                             /\ intensiveQuantityCacheUpToDate'[1][d]) =>
                              thermodynamicHint(d, 0)'
                                  = IF enableThermodynamicHints
                                    THEN <<1, d>>
                                    ELSE Null ]_vars

\* slot 0 invalidated with its value kept, the hint comes from slot 1
C18_Witness ==
    /\ cacheRet.op = "setIntensiveQuantitiesCacheEntryValidity"
    /\ cacheRet.timeIdx = 0
    /\ cacheRet.arg = FALSE
    /\ enableThermodynamicHints
    /\ enableIntensiveQuantitiesCache
    /\ intensiveQuantityCache[0][cacheRet.globalIdx] = 1
    /\ intensiveQuantityCacheUpToDate[1][cacheRet.globalIdx]
    /\ intensiveQuantityCache[1][cacheRet.globalIdx] = 2
    /\ cachedIntensiveQuantities(cacheRet.globalIdx, 0) = Null
    /\ Deref(thermodynamicHint(cacheRet.globalIdx, 0)) = 2

\* C19: thermodynamicHint returns none iff hints are off or no time index
\* is up to date for the dof; otherwise the entry of the requested time
\* index if that is up to date, else the entry of the lowest up-to-date time
\* index; the entry returned is up to date, and the cache is not changed.
C19_Hint ==
    [][ cacheRet'.op = "thermodynamicHint" =>
            LET g == cacheRet'.globalIdx
                t == cacheRet'.timeIdx
                r == cacheRet'.val
                upToDate == {t2 \in TimeIndices :
                                 intensiveQuantityCacheUpToDate[t2][g]}
            IN /\ intensiveQuantityCache' = intensiveQuantityCache
               /\ intensiveQuantityCacheUpToDate' = intensiveQuantityCacheUpToDate
               /\ r = Null <=> (~enableThermodynamicHints \/ upToDate = {})
               /\ r # Null =>
                      /\ r[2] = g
                      /\ r[1] \in upToDate
                      /\ t \in upToDate => r[1] = t
                      /\ t \notin upToDate => \A t2 \in upToDate : r[1] <= t2
      ]_vars

\* asked for slot 1, which is stale, and answered from slot 0
C19_Witness ==
    /\ cacheRet.op = "thermodynamicHint"
    /\ cacheRet.timeIdx = 1
    /\ cacheRet.val = <<0, cacheRet.globalIdx>>
    /\ ~intensiveQuantityCacheUpToDate[1][cacheRet.globalIdx]

\* C20: after shiftIntensiveQuantityCache(numSlots) every slot k+numSlots
\* with 0 <= k < historySize-numSlots holds the values and flags slot k had
\* before, and every entry of slot 0 is stale.
C20_ShiftMovesEverySlot ==
    [][ (cacheRet'.op = "shiftIntensiveQuantityCache" /\ storeIntensiveQuantities) =>
            /\ \A k \in 0..(historySize - cacheRet'.arg - 1) :
                   /\ intensiveQuantityCache'[k + cacheRet'.arg]
                          = intensiveQuantityCache[k]
                   /\ intensiveQuantityCacheUpToDate'[k + cacheRet'.arg]
                          = intensiveQuantityCacheUpToDate[k]
            /\ \A g \in GlobalIndices : ~intensiveQuantityCacheUpToDate'[0][g]
      ]_vars

(***************************************************************************)
(* The life cycle of the solution vectors and of the cache.                *)
(*                                                                         *)
(* A solution vector holds one PrimaryVariables object per DOF, modelled   *)
(* by a small integer, 0 being a default-constructed one. Grid adaptation  *)
(* is available in builds with dune-fem only; the constructor throws when  *)
(* it is switched on in another build, so enableGridAdaptation_ being true *)
(* means a build with dune-fem, where the solutions are discrete functions *)
(* over space_ and follow the grid when it is adapted. The values that     *)
(* restriction and prolongation give the DOFs are not modelled: the DOFs   *)
(* that stay keep their value, new ones are default-constructed.           *)
(* The methods of the cache are called with globalIdx < numGridDof;        *)
(* updateCachedIntensiveQuantities, which writes, is called with indices   *)
(* inside the vectors only.                                                *)
(***************************************************************************)
\* auxiliary modules added to one discretization
MaxAuxModules == 1
\* numDofs() of the auxiliary modules
AuxiliaryDofs == {1}
\* numGridDof() after the grid was adapted
AdaptedGridSizes == {2}
\* PrimaryVariables objects written to the current solution, and the DOFs
\* they are written to
PrimaryVariables == {1}
WrittenDofs == {0}
\* IntensiveQuantities objects handed to the cache
UpdatedQuantities == {1}

\* what a read beyond the end of a vector can do to the call besides
\* returning: the process is stopped by the memory fault
Crashed == <<-2, -2>>
\* addAuxiliaryModule threw Opm::NotAvailable
NotAvailable == <<-3, -3>>
\* what the source has no code for: a call refused as a misuse of the cache
CacheMisuse == <<-4, -4>>

RECURSIVE numDofsOf(_)
numDofsOf(modules) ==
    IF modules = <<>> THEN 0 ELSE Head(modules) + numDofsOf(Tail(modules))

numAuxiliaryDof == numDofsOf(auxEqModules)
numTotalDof == numGridDof + numAuxiliaryDof

\* the switches and the history size: no method changes them
switches ==
    <<enableIntensiveQuantitiesCache, enableThermodynamicHints, historySize,
      enableGridAdaptation>>

InitModel ==
    /\ ControllerAbsent
    /\ AssemblyAbsent
    /\ FvBaseDiscretization
    /\ enableGridAdaptation \in BOOLEAN

(***************************************************************************)
(* resizeAndResetIntensiveQuantitiesCache_()                               *)
(***************************************************************************)
\* the vectors are resized, the flags that stay are not reset
resizeAndResetIntensiveQuantitiesCacheKeepingFlags ==
    /\ IF ~storeIntensiveQuantities
       THEN UNCHANGED <<intensiveQuantityCache, intensiveQuantityCacheUpToDate>>
       ELSE /\ intensiveQuantityCache' =
                   [timeIdx \in TimeIndices |->
                        Resized(intensiveQuantityCache[timeIdx], numGridDof, 0)]
            /\ intensiveQuantityCacheUpToDate' =
                   [timeIdx \in TimeIndices |->
                        Resized(intensiveQuantityCacheUpToDate[timeIdx],
                                numGridDof, FALSE)]
    /\ cacheRet' = CacheRet("resizeAndResetIntensiveQuantitiesCache", 0, 0,
                            numGridDof, Null)
    /\ UNCHANGED cacheParameters
    /\ UNCHANGED <<controllerVars, assemblyVars>>

resizeAndResetIntensiveQuantitiesCache ==
    /\ IF ~storeIntensiveQuantities
       THEN UNCHANGED <<intensiveQuantityCache, intensiveQuantityCacheUpToDate>>
       ELSE /\ intensiveQuantityCache' =
                   [timeIdx \in TimeIndices |->
                        Resized(intensiveQuantityCache[timeIdx], numGridDof, 0)]
            /\ intensiveQuantityCacheUpToDate' =
                   [timeIdx \in TimeIndices |-> Filled(numGridDof, FALSE)]
    /\ cacheRet' = CacheRet("resizeAndResetIntensiveQuantitiesCache", 0, 0,
                            numGridDof, Null)
    /\ UNCHANGED cacheParameters
    /\ UNCHANGED <<controllerVars, assemblyVars>>

(***************************************************************************)
(* finishInit(): of its effects, the one on the cache. The flags are       *)
(* filled with false, the vectors keep their size.                         *)
(***************************************************************************)
invalidated(upToDate) ==
    IF storeIntensiveQuantities
    THEN [timeIdx \in TimeIndices |->
              [i \in DOMAIN upToDate[timeIdx] |-> FALSE]]
    ELSE upToDate

finishInit ==
    /\ intensiveQuantityCacheUpToDate' =
           invalidated(intensiveQuantityCacheUpToDate)
    /\ cacheRet' = CacheRet("finishInit", 0, 0, 0, Null)
    /\ UNCHANGED <<cacheParameters, intensiveQuantityCache>>
    /\ UNCHANGED <<controllerVars, assemblyVars>>

(***************************************************************************)
(* adaptGrid(). marked is what problem().markForGridAdaptation() returns,  *)
(* nDofs is numGridDof() of the adapted grid.                              *)
(***************************************************************************)
adapts(marked) == enableGridAdaptation /\ marked

adaptedSolution(marked, nDofs) ==
    IF adapts(marked)
    THEN [timeIdx \in TimeIndices |-> Resized(solution[timeIdx], nDofs, 0)]
    ELSE solution

adaptedUpToDate(marked) ==
    IF adapts(marked)
    THEN invalidated(intensiveQuantityCacheUpToDate)
    ELSE intensiveQuantityCacheUpToDate

adaptGrid(marked, nDofs) ==
    /\ numGridDof' = IF adapts(marked) THEN nDofs ELSE numGridDof
    /\ solution' = adaptedSolution(marked, nDofs)
    /\ intensiveQuantityCacheUpToDate' = adaptedUpToDate(marked)
    /\ cacheRet' = CacheRet("adaptGrid", 0, 0, nDofs, Null)
    /\ UNCHANGED <<switches, written, updating, auxEqModules, intensiveQuantityCache>>
    /\ UNCHANGED <<controllerVars, assemblyVars>>

(***************************************************************************)
(* updateFailed()                                                          *)
(***************************************************************************)
\* the flags of the current time index are left as they are
updateFailedKeepingFlags ==
    /\ intensiveQuantityCache' =
           [intensiveQuantityCache EXCEPT ![0] = intensiveQuantityCache[1]]
    /\ solution' = [solution EXCEPT ![0] = solution[1]]
    /\ cacheRet' = CacheRet("updateFailed", 0, 0, 0, Null)
    /\ UNCHANGED <<switches, written, updating, numGridDof, auxEqModules,
                   intensiveQuantityCacheUpToDate>>
    /\ UNCHANGED <<controllerVars, assemblyVars>>

updateFailed ==
    /\ intensiveQuantityCache' =
           [intensiveQuantityCache EXCEPT ![0] = intensiveQuantityCache[1]]
    /\ intensiveQuantityCacheUpToDate' =
           [intensiveQuantityCacheUpToDate EXCEPT
                ![0] = intensiveQuantityCacheUpToDate[1]]
    /\ solution' = [solution EXCEPT ![0] = solution[1]]
    /\ cacheRet' = CacheRet("updateFailed", 0, 0, 0, Null)
    /\ UNCHANGED <<switches, written, updating, numGridDof, auxEqModules>>
    /\ UNCHANGED <<controllerVars, assemblyVars>>

(***************************************************************************)
(* advanceTimeLevel(): adaptGrid(), solution(1) = solution(0),             *)
(* shiftIntensiveQuantityCache(1).                                         *)
(***************************************************************************)
advanceTimeLevel(marked, nDofs) ==
    /\ numGridDof' = IF adapts(marked) THEN nDofs ELSE numGridDof
    /\ solution' = [adaptedSolution(marked, nDofs) EXCEPT
                        ![1] = adaptedSolution(marked, nDofs)[0]]
    /\ IF ~storeIntensiveQuantities
       THEN UNCHANGED <<intensiveQuantityCache, intensiveQuantityCacheUpToDate>>
       ELSE /\ intensiveQuantityCache' =
                   shiftedFrom(intensiveQuantityCache, 0, 1)
            /\ intensiveQuantityCacheUpToDate' =
                   [shiftedFrom(adaptedUpToDate(marked), 0, 1)
                        EXCEPT ![0] = [i \in DOMAIN @ |-> FALSE]]
    /\ cacheRet' = CacheRet("advanceTimeLevel", 0, 0, nDofs, Null)
    /\ UNCHANGED <<switches, written, updating, auxEqModules>>
    /\ UNCHANGED <<controllerVars, assemblyVars>>

(***************************************************************************)
(* addAuxiliaryModule(auxMod), numDofs being auxMod->numDofs(). The module *)
(* is in auxEqModules_ already when the method throws.                     *)
(***************************************************************************)
addAuxiliaryModule(numDofs) ==
    /\ Len(auxEqModules) < MaxAuxModules
    /\ auxEqModules' = Append(auxEqModules, numDofs)
    /\ IF enableGridAdaptation
       THEN /\ UNCHANGED solution
            /\ cacheRet' = CacheRet("addAuxiliaryModule", 0, 0, numDofs,
                                    NotAvailable)
       ELSE /\ solution' =
                   [timeIdx \in TimeIndices |->
                        Resized(solution[timeIdx],
                                numGridDof + numDofsOf(auxEqModules'), 0)]
            /\ cacheRet' = CacheRet("addAuxiliaryModule", 0, 0, numDofs, Null)
    /\ UNCHANGED <<switches, written, updating, numGridDof, intensiveQuantityCache,
                   intensiveQuantityCacheUpToDate>>
    /\ UNCHANGED <<controllerVars, assemblyVars>>

(***************************************************************************)
(* solution(0)[globalIdx] = priVars, as the Newton method does through the *)
(* reference solution(timeIdx) returns.                                    *)
(***************************************************************************)
assignSolution(priVars, globalIdx) ==
    /\ solution' = [solution EXCEPT ![0][globalIdx] = priVars]
    /\ cacheRet' = CacheRet("solution", globalIdx, 0, priVars, Null)
    /\ UNCHANGED <<switches, written, updating, numGridDof, auxEqModules, intensiveQuantityCache,
                   intensiveQuantityCacheUpToDate>>
    /\ UNCHANGED <<controllerVars, assemblyVars>>

(***************************************************************************)
(* cachedIntensiveQuantities and thermodynamicHint with globalIdx beyond   *)
(* the end of the vectors. operator[] does not check the index: the read   *)
(* of the flag is undefined behaviour, which can give either value of the  *)
(* flag or stop the process.                                               *)
(***************************************************************************)
insideCache(globalIdx, timeIdx) ==
    globalIdx \in DOMAIN intensiveQuantityCacheUpToDate[timeIdx]

cachedIntensiveQuantitiesBeyondEnd(globalIdx, timeIdx) ==
    /\ enableIntensiveQuantitiesCache
    /\ ~insideCache(globalIdx, timeIdx)
    /\ \E val \in {Null, <<timeIdx, globalIdx>>, Crashed} :
           cacheRet' = CacheRet("cachedIntensiveQuantities", globalIdx,
                                timeIdx, 0, val)
    /\ UNCHANGED <<cacheParameters, intensiveQuantityCache,
                   intensiveQuantityCacheUpToDate>>
    /\ UNCHANGED <<controllerVars, assemblyVars>>

thermodynamicHintBeyondEnd(globalIdx, timeIdx) ==
    /\ enableThermodynamicHints
    /\ ~insideCache(globalIdx, timeIdx)
    /\ \E val \in {Null, Crashed}
                      \cup { <<timeIdx2, globalIdx>> : timeIdx2 \in TimeIndices } :
           cacheRet' = CacheRet("thermodynamicHint", globalIdx, timeIdx, 0, val)
    /\ UNCHANGED <<cacheParameters, intensiveQuantityCache,
                   intensiveQuantityCacheUpToDate>>
    /\ UNCHANGED <<controllerVars, assemblyVars>>

(***************************************************************************)
(* update(solver): updateBegin(), solver.apply(), then updateSuccessful()  *)
(* or updateFailed(), and the return of converged. While solver.apply()    *)
(* runs, the Newton method writes the solution of time index 0 and the     *)
(* cache through the methods of the discretization.                        *)
(***************************************************************************)
\* what update(solver) and its empty hooks leave alone
discretization ==
    <<discretizationParameters, written, intensiveQuantityCache,
      intensiveQuantityCacheUpToDate>>

discretizationButPosition ==
    <<switches, written, numGridDof, auxEqModules, solution,
      intensiveQuantityCache, intensiveQuantityCacheUpToDate>>

\* updateBoundary_() writes onBoundary_ only
updateBegin ==
    /\ updating = "outside"
    /\ updating' = "apply"
    /\ cacheRet' = CacheRet("updateBegin", 0, 0, 0, Null)
    /\ UNCHANGED discretizationButPosition
    /\ UNCHANGED <<controllerVars, assemblyVars>>

\* bool converged = solver.apply()
solverApply(converged) ==
    /\ updating = "apply"
    /\ updating' = IF converged THEN "converged" ELSE "notConverged"
    /\ cacheRet' = CacheRet("apply", 0, 0, converged, Null)
    /\ UNCHANGED discretizationButPosition
    /\ UNCHANGED <<controllerVars, assemblyVars>>

updateSuccessful ==
    /\ cacheRet' = CacheRet("updateSuccessful", 0, 0, 0, Null)
    /\ UNCHANGED discretization
    /\ UNCHANGED <<controllerVars, assemblyVars>>

\* the hook of update(solver) has not been called yet
hookPending == cacheRet.op = "apply"

\* true is returned whatever solver.apply() returned
updateEndReportingSuccess ==
    /\ updating \in {"converged", "notConverged"}
    /\ ~hookPending
    /\ updating' = "outside"
    /\ cacheRet' = CacheRet("update", 0, 0, TRUE, Null)
    /\ UNCHANGED discretizationButPosition
    /\ UNCHANGED <<controllerVars, assemblyVars>>

\* return converged
updateEnd ==
    /\ updating \in {"converged", "notConverged"}
    /\ ~hookPending
    /\ updating' = "outside"
    /\ cacheRet' = CacheRet("update", 0, 0, updating = "converged", Null)
    /\ UNCHANGED discretizationButPosition
    /\ UNCHANGED <<controllerVars, assemblyVars>>

\* the methods the Newton method calls are called inside and outside of
\* update(solver), the others outside of it
NextModel ==
    \/ updating = "outside" /\ resizeAndResetIntensiveQuantitiesCache
    \/ updating = "outside" /\ finishInit
    \/ \E marked \in BOOLEAN, nDofs \in AdaptedGridSizes :
           updating = "outside" /\ adaptGrid(marked, nDofs)
    \/ \E marked \in BOOLEAN, nDofs \in AdaptedGridSizes :
           updating = "outside" /\ advanceTimeLevel(marked, nDofs)
    \/ \E numDofs \in AuxiliaryDofs :
           updating = "outside" /\ addAuxiliaryModule(numDofs)
    \/ \E priVars \in PrimaryVariables, globalIdx \in WrittenDofs :
           /\ updating \in {"outside", "apply"}
           /\ assignSolution(priVars, globalIdx)
    \/ \E intQuants \in UpdatedQuantities,
          globalIdx \in GlobalIndices, timeIdx \in TimeIndices :
           /\ updating \in {"outside", "apply"}
           /\ storeIntensiveQuantities => insideCache(globalIdx, timeIdx)
           /\ updateCachedIntensiveQuantities(intQuants, globalIdx, timeIdx)
    \/ \E globalIdx \in GlobalIndices, timeIdx \in TimeIndices :
           /\ updating \in {"outside", "apply"}
           /\ enableIntensiveQuantitiesCache => insideCache(globalIdx, timeIdx)
           /\ cachedIntensiveQuantitiesCall(globalIdx, timeIdx)
    \/ \E globalIdx \in GlobalIndices, timeIdx \in TimeIndices :
           /\ updating \in {"outside", "apply"}
           /\ enableThermodynamicHints => insideCache(globalIdx, timeIdx)
           /\ thermodynamicHintCall(globalIdx, timeIdx)
    \/ \E globalIdx \in GlobalIndices, timeIdx \in TimeIndices :
           /\ updating \in {"outside", "apply"}
           /\ cachedIntensiveQuantitiesBeyondEnd(globalIdx, timeIdx)
    \/ \E globalIdx \in GlobalIndices, timeIdx \in TimeIndices :
           /\ updating \in {"outside", "apply"}
           /\ thermodynamicHintBeyondEnd(globalIdx, timeIdx)
    \/ updateBegin
    \/ \E converged \in BOOLEAN : solverApply(converged)
    \/ updating = "converged" /\ hookPending /\ updateSuccessful
    \/ updating = "notConverged" /\ hookPending /\ updateFailed
    \/ updateEnd

SpecModel == InitModel /\ [][NextModel]_vars

(***************************************************************************)
(* Properties of the life cycle.                                           *)
(***************************************************************************)
Resizing == cacheRet.op = "resizeAndResetIntensiveQuantitiesCache"

\* every entry of every time index is stale and cachedIntensiveQuantities
\* returns 0 for every DOF of the grid
EveryEntryStale ==
    \A timeIdx \in TimeIndices :
        /\ \A i \in DOMAIN intensiveQuantityCacheUpToDate[timeIdx] :
               ~intensiveQuantityCacheUpToDate[timeIdx][i]
        /\ \A globalIdx \in GlobalIndices :
               cachedIntensiveQuantities(globalIdx, timeIdx) = Null

\* every time index holds n entries
EverySlotHolds(n) ==
    \A timeIdx \in TimeIndices :
        /\ DOMAIN intensiveQuantityCache[timeIdx] = 0..(n - 1)
        /\ DOMAIN intensiveQuantityCacheUpToDate[timeIdx] = 0..(n - 1)

\* C21 as stated: after resizeAndResetIntensiveQuantitiesCache_() on a grid
\* of n DOFs, whatever updates and shifts came before, every time index of
\* the cache has exactly n entries, every entry is stale and
\* cachedIntensiveQuantities returns 0 for every time index and DOF.
C21_ResizeGivesStaleEntries ==
    Resizing => EverySlotHolds(numGridDof) /\ EveryEntryStale

\* C21 as the code has it: the method allocates only if entries are stored
\* (cache or hints switched on). Then every time index has exactly n entries
\* after it, all stale; with both switches off the vectors stay empty. In
\* both cases cachedIntensiveQuantities returns 0 for every time index and
\* DOF after it.
C21_ResizeGivesStaleEntriesIfStored ==
    Resizing =>
        /\ EveryEntryStale
        /\ IF storeIntensiveQuantities
           THEN EverySlotHolds(numGridDof)
           ELSE EverySlotHolds(0)

\* a resize of a cache that holds entries written before it, on a grid
\* whose size changed since the construction
C21_Witness ==
    /\ Resizing
    /\ enableIntensiveQuantitiesCache
    /\ historySize = 3
    /\ numGridDof = 2
    /\ intensiveQuantityCache[1][0] # 0

\* C22: in every reachable state with entries stored, every time index of
\* the cache has as many entries as the solution vector of the same time
\* index has DOFs.
C22_CacheMatchesSolution ==
    storeIntensiveQuantities =>
        \A timeIdx \in TimeIndices :
            /\ DOMAIN intensiveQuantityCache[timeIdx] = DOMAIN solution[timeIdx]
            /\ DOMAIN intensiveQuantityCacheUpToDate[timeIdx]
                   = DOMAIN solution[timeIdx]

\* C23: a step of updateFailed leaves time index 0 of the cache (values and
\* flags) equal to what time index 1 held and solution 0 equal to what
\* solution 1 held, and does not change time index 1 of either.
C23_RollbackRestores ==
    [][cacheRet'.op = "updateFailed" =>
           /\ intensiveQuantityCache'[0] = intensiveQuantityCache[1]
           /\ intensiveQuantityCacheUpToDate'[0]
                  = intensiveQuantityCacheUpToDate[1]
           /\ solution'[0] = solution[1]
           /\ intensiveQuantityCache'[1] = intensiveQuantityCache[1]
           /\ intensiveQuantityCacheUpToDate'[1]
                  = intensiveQuantityCacheUpToDate[1]
           /\ solution'[1] = solution[1]]_vars

\* a rollback that brought back a written solution and an up-to-date entry
\* which advanceTimeLevel had moved to time index 1
C23_Witness ==
    /\ cacheRet.op = "updateFailed"
    /\ storeIntensiveQuantities
    /\ solution[0][0] = 1
    /\ solution[1][0] = 1
    /\ intensiveQuantityCacheUpToDate[0][0]
    /\ intensiveQuantityCache[0][0] = 1

\* C24: a cachedIntensiveQuantities or thermodynamicHint call that reads the
\* flags (its switch is on) with a DOF index beyond the end of the cache
\* is not answered: it is reported as a misuse of the cache.
C24_BeyondEndIsRefused ==
    /\ (/\ cacheRet.op = "cachedIntensiveQuantities"
        /\ enableIntensiveQuantitiesCache
        /\ ~insideCache(cacheRet.globalIdx, cacheRet.timeIdx))
           => cacheRet.val = CacheMisuse
    /\ (/\ cacheRet.op = "thermodynamicHint"
        /\ enableThermodynamicHints
        /\ ~insideCache(cacheRet.globalIdx, cacheRet.timeIdx))
           => cacheRet.val = CacheMisuse

(***************************************************************************)
(* globalResidual(dest), as run by the process of rank 0.                  *)
(*                                                                         *)
(* The grid is a chain of elements; element e has the DOFs e and e + 1, so *)
(* neighbours share a DOF. numEq is 1 and the residuals are integers: the  *)
(* additions are exact. Each element is interior to the process owner      *)
(* names; the other processes see it as a ghost element.                   *)
(* Each thread runs the loop body in the steps increment (beginParallel    *)
(* and increment), body (the partition test, updateAll and eval), lock,    *)
(* load and store (one execution of +=) and unlock.                        *)
(* ThreadedEntityIterator, OmpMutex, ScopedLock, the element context and   *)
(* the communication are not part of these sources. What is taken from     *)
(* their description: the iterator hands every element to exactly one      *)
(* thread, the mutex is held by at most one thread, updateAll stores the   *)
(* intensive quantities of the element's DOFs in the cache, and            *)
(* communicate gives every process the sum over the processes of the       *)
(* entries of a DOF on their common border.                                *)
(* The other processes run the same method; what they assemble is taken    *)
(* to be what the loop gives when run by one thread.                       *)
(***************************************************************************)
\* threads of the parallel region
MaxThreads == 2
\* calls of globalResidual in a row
MaxPasses == 2

Elements == 0..2
\* gridView().end<0>()
endIt == Cardinality(Elements)
\* elemCtx.numPrimaryDof(0)
numPrimaryDof == 2
\* elemCtx.globalSpaceIndex(dofIdx, 0)
globalSpaceIndex(elem, dofIdx) == elem + dofIdx
MeshDofs ==
    { globalSpaceIndex(elem, dofIdx) :
          elem \in Elements, dofIdx \in 0..(numPrimaryDof - 1) }
\* what eval computes: residual[dofIdx] of element elem
localResidual(elem, dofIdx) == 2 * elem + dofIdx + 1
\* the intensive quantities updateAll computes for a DOF
intensiveQuantitiesOf(globalIdx) == 1

\* one process; the last element on another process; the middle one on
\* another process
Decompositions ==
    { [elem \in Elements |-> 0],
      [elem \in Elements |-> IF elem = 2 THEN 1 ELSE 0],
      [elem \in Elements |-> IF elem = 1 THEN 1 ELSE 0] }
\* what dest holds when globalResidual is called
InitialDests == { Filled(Cardinality(MeshDofs), 0), Filled(Cardinality(MeshDofs), 7) }

Ranks == { owner[elem] : elem \in Elements }
isInterior(rank, elem) == owner[elem] = rank

Worker(pc, elemIt, residual, dofIdx, loaded) ==
    [pc |-> pc, elemIt |-> elemIt, residual |-> residual, dofIdx |-> dofIdx,
     loaded |-> loaded]
Threads == 1..numThreads
NoCalls == [elem \in Elements |-> 0]

InitAssembly ==
    /\ ControllerAbsent
    /\ Constructed({ <<2, Cardinality(MeshDofs)>> })
    /\ enableGridAdaptation = FALSE
    /\ numThreads \in 1..MaxThreads
    /\ owner \in Decompositions
    /\ dest \in InitialDests
    /\ mutex = NoThread
    /\ threadedElemIt = 0
    /\ workers = [t \in Threads |-> Worker("outside", 0, <<>>, 0, 0)]
    /\ evaluated = NoCalls
    /\ merged = NoCalls
    /\ region = "outside"
    /\ numPasses = 0
    /\ result2 = 0
    /\ previous = <<>>
    /\ tmp = NoCopy

\* what the threads do not change before the parallel region ends
passParameters ==
    <<numThreads, owner, region, numPasses, result2, previous, tmp>>
\* the discretization but the cache
assemblyParameters == <<discretizationParameters, cacheRet>>

(***************************************************************************)
(* dest = 0 and the start of the parallel region                           *)
(***************************************************************************)
\* dest is not set to zero
globalResidualBeginKeepingDest ==
    /\ region = "outside"
    /\ numPasses < MaxPasses
    /\ dest' = dest
    /\ mutex' = NoThread
    /\ threadedElemIt' = 0
    /\ workers' = [t \in Threads |-> Worker("increment", 0, <<>>, 0, 0)]
    /\ evaluated' = NoCalls
    /\ merged' = NoCalls
    /\ region' = "parallel"
    /\ previous' = IF numPasses = 0 THEN <<>> ELSE <<dest, result2>>
    /\ UNCHANGED <<numThreads, owner, numPasses, result2, tmp>>
    /\ UNCHANGED <<controllerVars, cacheVars>>

globalResidualBegin ==
    /\ region = "outside"
    /\ numPasses < MaxPasses
    /\ dest' = [globalI \in DOMAIN dest |-> 0]
    /\ mutex' = NoThread
    /\ threadedElemIt' = 0
    /\ workers' = [t \in Threads |-> Worker("increment", 0, <<>>, 0, 0)]
    /\ evaluated' = NoCalls
    /\ merged' = NoCalls
    /\ region' = "parallel"
    /\ previous' = IF numPasses = 0 THEN <<>> ELSE <<dest, result2>>
    /\ UNCHANGED <<numThreads, owner, numPasses, result2, tmp>>
    /\ UNCHANGED <<controllerVars, cacheVars>>

(***************************************************************************)
(* globalResidual(dest, u) up to the parallel region of globalResidual(dest):*)
(* the solution of time index 0 is copied to tmp and replaced by u.        *)
(***************************************************************************)
\* the solution vectors the residual is asked for
ArbitrarySolutions == { Filled(Cardinality(MeshDofs), 1) }

\* the discretization but the solution
cacheButSolution ==
    <<enableIntensiveQuantitiesCache, enableThermodynamicHints, historySize,
      numGridDof, intensiveQuantityCache, intensiveQuantityCacheUpToDate,
      cacheRet, auxEqModules, enableGridAdaptation, written, updating>>

globalResidualOf(u) ==
    /\ region = "outside"
    /\ numPasses < MaxPasses
    /\ tmp' = solution[0]
    /\ solution' = [solution EXCEPT ![0] = u]
    /\ dest' = [globalI \in DOMAIN dest |-> 0]
    /\ mutex' = NoThread
    /\ threadedElemIt' = 0
    /\ workers' = [t \in Threads |-> Worker("increment", 0, <<>>, 0, 0)]
    /\ evaluated' = NoCalls
    /\ merged' = NoCalls
    /\ region' = "parallel"
    /\ previous' = IF numPasses = 0 THEN <<>> ELSE <<dest, result2>>
    /\ UNCHANGED <<numThreads, owner, numPasses, result2>>
    /\ UNCHANGED <<controllerVars, cacheButSolution>>

(***************************************************************************)
(* threadedElemIt.beginParallel(elemIt), threadedElemIt.increment(elemIt)  *)
(* and threadedElemIt.isFinished(elemIt)                                   *)
(***************************************************************************)
increment(t) ==
    /\ workers[t].pc = "increment"
    /\ workers' = [workers EXCEPT
                       ![t].elemIt = threadedElemIt,
                       ![t].pc = IF threadedElemIt = endIt
                                 THEN "finished" ELSE "body"]
    /\ threadedElemIt' = Min(threadedElemIt + 1, endIt)
    /\ UNCHANGED <<passParameters, dest, mutex, evaluated, merged>>
    /\ UNCHANGED <<controllerVars, cacheVars>>

(***************************************************************************)
(* The loop body up to the lock: the test of the partition type,           *)
(* elemCtx.updateAll(elem) and localResidual(threadId).eval(...).          *)
(***************************************************************************)
\* the cache after elemCtx.updateAll(elem): updateCachedIntensiveQuantities
\* for the DOFs of the element, at time index 0
updateAll(array, elem, value) ==
    IF ~storeIntensiveQuantities
    THEN array
    ELSE [array EXCEPT ![0] =
              [globalIdx \in DOMAIN @ |->
                   IF \E dofIdx \in 0..(numPrimaryDof - 1) :
                          globalSpaceIndex(elem, dofIdx) = globalIdx
                   THEN value
                   ELSE @[globalIdx]]]

evaluate(t) ==
    /\ workers' = [workers EXCEPT
                       ![t].residual =
                           [dofIdx \in 0..(numPrimaryDof - 1) |->
                                localResidual(workers[t].elemIt, dofIdx)],
                       ![t].pc = "lock"]
    /\ evaluated' = [evaluated EXCEPT ![workers[t].elemIt] = @ + 1]
    /\ intensiveQuantityCache' =
           updateAll(intensiveQuantityCache, workers[t].elemIt,
                     intensiveQuantitiesOf(0))
    /\ intensiveQuantityCacheUpToDate' =
           updateAll(intensiveQuantityCacheUpToDate, workers[t].elemIt, TRUE)
    /\ written' =
           [globalIdx \in DOMAIN written |->
                IF \E dofIdx \in 0..(numPrimaryDof - 1) :
                       globalSpaceIndex(workers[t].elemIt, dofIdx) = globalIdx
                THEN written[globalIdx] \cup {intensiveQuantitiesOf(0)}
                ELSE written[globalIdx]]

\* elements that are not interior are evaluated as well
bodyOfEveryElement(t) ==
    /\ workers[t].pc = "body"
    /\ evaluate(t)
    /\ UNCHANGED <<passParameters, dest, mutex, threadedElemIt, merged>>
    /\ UNCHANGED <<controllerVars, assemblyParameters>>

body(t) ==
    /\ workers[t].pc = "body"
    /\ IF ~isInterior(0, workers[t].elemIt)
       THEN /\ workers' = [workers EXCEPT ![t].pc = "increment"]
            /\ UNCHANGED <<evaluated, intensiveQuantityCache,
                           intensiveQuantityCacheUpToDate, written>>
       ELSE evaluate(t)
    /\ UNCHANGED <<passParameters, dest, mutex, threadedElemIt, merged>>
    /\ UNCHANGED <<controllerVars, assemblyParameters>>

(***************************************************************************)
(* localResidual(threadId).eval(elemCtx) throws. Nothing between the call  *)
(* and the caller of globalResidual catches: with one thread and no        *)
(* parallel region the exception leaves globalResidual(dest) and           *)
(* globalResidual(dest, u) at once; an exception that leaves the block of  *)
(* an OpenMP parallel region ends the program.                             *)
(***************************************************************************)
evalThrows(t) ==
    /\ workers[t].pc = "body"
    /\ isInterior(0, workers[t].elemIt)
    /\ region' \in IF numThreads = 1
                   THEN {"thrown", "terminated"}
                   ELSE {"terminated"}
    /\ workers' = [w \in Threads |-> Worker("outside", 0, <<>>, 0, 0)]
    /\ tmp' = NoCopy
    /\ UNCHANGED <<numThreads, owner, numPasses, result2, previous, dest,
                   mutex, threadedElemIt, evaluated, merged>>
    /\ UNCHANGED <<controllerVars, cacheVars>>

(***************************************************************************)
(* ScopedLock addLock(mutex)                                               *)
(***************************************************************************)
\* the line is missing: the additions are made without the lock
lockNotTaken(t) ==
    /\ workers[t].pc = "lock"
    /\ workers' = [workers EXCEPT ![t].dofIdx = 0, ![t].pc = "load"]
    /\ UNCHANGED <<passParameters, dest, mutex, threadedElemIt, evaluated,
                   merged>>
    /\ UNCHANGED <<controllerVars, cacheVars>>

lock(t) ==
    /\ workers[t].pc = "lock"
    /\ mutex = NoThread
    /\ mutex' = t
    /\ workers' = [workers EXCEPT ![t].dofIdx = 0, ![t].pc = "load"]
    /\ UNCHANGED <<passParameters, dest, threadedElemIt, evaluated, merged>>
    /\ UNCHANGED <<controllerVars, cacheVars>>

(***************************************************************************)
(* dest[globalI][eqIdx] += residual[dofIdx][eqIdx]: the entry is loaded,   *)
(* then the sum is stored.                                                 *)
(***************************************************************************)
globalI(t) == globalSpaceIndex(workers[t].elemIt, workers[t].dofIdx)

load(t) ==
    /\ workers[t].pc = "load"
    /\ workers' = [workers EXCEPT ![t].loaded = dest[globalI(t)],
                                  ![t].pc = "store"]
    /\ UNCHANGED <<passParameters, dest, mutex, threadedElemIt, evaluated,
                   merged>>
    /\ UNCHANGED <<controllerVars, cacheVars>>

\* addLock.unlock() is inside the loop over the DOFs
storeAndUnlock(t) ==
    /\ workers[t].pc = "store"
    /\ dest' = [dest EXCEPT ![globalI(t)] =
                    workers[t].loaded + workers[t].residual[workers[t].dofIdx]]
    /\ workers' = [workers EXCEPT
                       ![t].dofIdx = @ + 1,
                       ![t].pc = IF workers[t].dofIdx + 1 < numPrimaryDof
                                 THEN "load" ELSE "unlock"]
    /\ mutex' = NoThread
    /\ UNCHANGED <<passParameters, threadedElemIt, evaluated, merged>>
    /\ UNCHANGED <<controllerVars, cacheVars>>

store(t) ==
    /\ workers[t].pc = "store"
    /\ dest' = [dest EXCEPT ![globalI(t)] =
                    workers[t].loaded + workers[t].residual[workers[t].dofIdx]]
    /\ workers' = [workers EXCEPT
                       ![t].dofIdx = @ + 1,
                       ![t].pc = IF workers[t].dofIdx + 1 < numPrimaryDof
                                 THEN "load" ELSE "unlock"]
    /\ UNCHANGED <<passParameters, mutex, threadedElemIt, evaluated, merged>>
    /\ UNCHANGED <<controllerVars, cacheVars>>

(***************************************************************************)
(* addLock.unlock()                                                        *)
(***************************************************************************)
unlock(t) ==
    /\ workers[t].pc = "unlock"
    /\ mutex' = NoThread
    /\ merged' = [merged EXCEPT ![workers[t].elemIt] = @ + 1]
    /\ workers' = [workers EXCEPT ![t].pc = "increment"]
    /\ UNCHANGED <<passParameters, dest, threadedElemIt, evaluated>>
    /\ UNCHANGED <<controllerVars, cacheVars>>

(***************************************************************************)
(* After the parallel region: the sum over the process borders, the square *)
(* norm of dest, its sum over the processes, the square root.              *)
(* result2 is kept instead of its square root.                             *)
(***************************************************************************)
hasDof(elem, globalIdx) ==
    \E dofIdx \in 0..(numPrimaryDof - 1) :
        globalSpaceIndex(elem, dofIdx) = globalIdx

\* what the loop over dofIdx adds to dest[globalIdx] for element elem
contribution(elem, globalIdx) ==
    IF hasDof(elem, globalIdx)
    THEN localResidual(elem, CHOOSE dofIdx \in 0..(numPrimaryDof - 1) :
                                 globalSpaceIndex(elem, dofIdx) = globalIdx)
    ELSE 0

\* the loop run by one thread of the process rank, from element elem on
RECURSIVE sequentialResidualFrom(_, _, _)
sequentialResidualFrom(rank, elem, vec) ==
    IF elem = endIt
    THEN vec
    ELSE sequentialResidualFrom(
             rank, elem + 1,
             IF ~isInterior(rank, elem)
             THEN vec
             ELSE [globalIdx \in DOMAIN vec |->
                       vec[globalIdx] + contribution(elem, globalIdx)])

sequentialResidual(rank) ==
    sequentialResidualFrom(rank, 0, Filled(Cardinality(MeshDofs), 0))

\* dest of a process before the communication
locallyAssembled(rank) ==
    IF rank = 0 THEN dest ELSE sequentialResidual(rank)

\* the processes a DOF is interior or border to
sharers(globalIdx) ==
    { owner[elem] : elem \in { e \in Elements : hasDof(e, globalIdx) } }

RECURSIVE borderSum(_, _)
borderSum(ranks, globalIdx) ==
    IF ranks = {}
    THEN 0
    ELSE LET rank == CHOOSE r \in ranks : TRUE
         IN  locallyAssembled(rank)[globalIdx]
                 + borderSum(ranks \ {rank}, globalIdx)

\* dest of a process after gridView_.communicate(*sumHandle, ...)
communicated(rank) ==
    [globalIdx \in DOMAIN dest |->
         IF rank \in sharers(globalIdx)
         THEN borderSum(sharers(globalIdx), globalIdx)
         ELSE locallyAssembled(rank)[globalIdx]]

\* dest.two_norm2()
RECURSIVE two_norm2From(_, _)
two_norm2From(vec, globalIdx) ==
    IF globalIdx \notin DOMAIN vec
    THEN 0
    ELSE vec[globalIdx] * vec[globalIdx] + two_norm2From(vec, globalIdx + 1)

two_norm2(vec) == two_norm2From(vec, 0)

\* gridView().comm().sum(result2)
RECURSIVE commSum(_)
commSum(ranks) ==
    IF ranks = {}
    THEN 0
    ELSE LET rank == CHOOSE r \in ranks : TRUE
         IN  two_norm2(communicated(rank)) + commSum(ranks \ {rank})

\* mutableSolution(0) = tmp, when globalResidual(dest, u) made the call
restoredSolution ==
    IF tmp = NoCopy THEN solution ELSE [solution EXCEPT ![0] = tmp]

globalResidualEnd ==
    /\ region = "parallel"
    /\ \A t \in Threads : workers[t].pc = "finished"
    /\ dest' = communicated(0)
    /\ result2' = commSum(Ranks)
    /\ region' = "outside"
    /\ numPasses' = numPasses + 1
    /\ workers' = [t \in Threads |-> Worker("outside", 0, <<>>, 0, 0)]
    /\ solution' = restoredSolution
    /\ tmp' = NoCopy
    /\ UNCHANGED <<numThreads, owner, mutex, threadedElemIt, evaluated, merged,
                   previous>>
    /\ UNCHANGED <<controllerVars, cacheButSolution>>

NextAssembly ==
    \/ globalResidualBegin
    \/ \E u \in ArbitrarySolutions : globalResidualOf(u)
    \/ \E t \in Threads : increment(t)
    \/ \E t \in Threads : body(t)
    \/ \E t \in Threads : evalThrows(t)
    \/ \E t \in Threads : lock(t)
    \/ \E t \in Threads : load(t)
    \/ \E t \in Threads : store(t)
    \/ \E t \in Threads : unlock(t)
    \/ globalResidualEnd

SpecAssembly == InitAssembly /\ [][NextAssembly]_vars

(***************************************************************************)
(* Properties of the assembly.                                             *)
(***************************************************************************)
\* the threads between ScopedLock addLock(mutex) and addLock.unlock()
Merging == { t \in Threads : workers[t].pc \in {"load", "store", "unlock"} }

AllFinished ==
    /\ region = "parallel"
    /\ \A t \in Threads : workers[t].pc = "finished"

Returned == region = "outside" /\ numPasses >= 1

\* the contributions of the elements whose additions are complete
mergedResidual ==
    [globalIdx \in DOMAIN dest |->
         LET RECURSIVE upTo(_)
             upTo(elem) ==
                 IF elem = endIt
                 THEN 0
                 ELSE merged[elem] * contribution(elem, globalIdx)
                          + upTo(elem + 1)
         IN  upTo(0)]

\* C25: in the parallel region at most one thread is between the lock and
\* the unlock; a thread holds the mutex during all the additions of its
\* element; and whenever the mutex is free, dest holds whole contributions
\* of elements only, so a thread that takes the lock never finds part of an
\* element's contribution in dest.
C25_MergeIsAtomicPerElement ==
    region = "parallel" =>
        /\ Cardinality(Merging) <= 1
        /\ \A t \in Merging : mutex = t
        /\ mutex = NoThread => dest = mergedResidual

\* a thread has added the first DOF of its element and not yet the second
\* one, while the other thread waits for the lock with its own element
C25_Witness ==
    /\ region = "parallel"
    /\ \E t \in Threads, u \in Threads :
           /\ workers[t].pc = "load"
           /\ workers[t].dofIdx = 1
           /\ workers[u].pc = "lock"
           /\ hasDof(workers[u].elemIt, globalI(t))

\* C26: when all threads have left the loop, dest is what the loop gives
\* when one thread runs it over the elements in their order, for every
\* number of threads and every interleaving.
C26_SameAsOneThread ==
    AllFinished => dest = sequentialResidual(0)

\* two threads have each evaluated and added an element
C26_Witness ==
    /\ AllFinished
    /\ numThreads = 2
    /\ workers[1].residual # <<>>
    /\ workers[2].residual # <<>>
    /\ workers[1].residual # workers[2].residual

\* C27: in the parallel region, a step that writes dest or the cache
\* (values or flags) is taken by a thread that holds the mutex.
C27_WritesUnderLock ==
    [][(/\ region = "parallel"
        /\ region' = "parallel"
        /\ \/ dest' # dest
           \/ intensiveQuantityCache' # intensiveQuantityCache
           \/ intensiveQuantityCacheUpToDate' # intensiveQuantityCacheUpToDate)
           => \E t \in Threads : mutex = t /\ workers'[t] # workers[t]]_vars

\* C28: in one call, eval is called and its result added at most once for
\* each element, never for an element that is not interior, and exactly
\* once for every interior element when all threads have left the loop.
C28_OncePerInteriorElement ==
    \A elem \in Elements :
        /\ evaluated[elem] <= 1
        /\ merged[elem] <= evaluated[elem]
        /\ ~isInterior(0, elem) => evaluated[elem] = 0
        /\ (AllFinished /\ isInterior(0, elem)) =>
               evaluated[elem] = 1 /\ merged[elem] = 1

\* two threads have gone through a grid with interior elements and an
\* element that is not interior
C28_Witness ==
    /\ AllFinished
    /\ numThreads = 2
    /\ \E elem \in Elements : ~isInterior(0, elem)
    /\ \E elem \in Elements : merged[elem] = 1

\* dest of rank 0 after the communication if every process assembles what
\* one thread gives
RECURSIVE referenceSum(_, _)
referenceSum(ranks, globalIdx) ==
    IF ranks = {}
    THEN 0
    ELSE LET rank == CHOOSE r \in ranks : TRUE
         IN  sequentialResidual(rank)[globalIdx]
                 + referenceSum(ranks \ {rank}, globalIdx)

reducedReference ==
    [globalIdx \in DOMAIN dest |->
         IF 0 \in sharers(globalIdx)
         THEN referenceSum(sharers(globalIdx), globalIdx)
         ELSE 0]

\* C29: what globalResidual leaves in dest does not depend on what dest
\* held at the call, and a second call in a row leaves the same dest and
\* returns the same norm as the first one.
C29_RetryGivesSame ==
    Returned =>
        /\ dest = reducedReference
        /\ numPasses >= 2 => previous = <<dest, result2>>

\* a second call has returned; it was made with the result of the first
\* one in dest
C29_Witness ==
    /\ Returned
    /\ numPasses = 2
    /\ numThreads = 2
    /\ previous # <<>>
    /\ \E globalIdx \in DOMAIN dest : dest[globalIdx] # 0

\* the residual of the grid on one process: every element is interior
singleProcessResidual ==
    [globalIdx \in DOMAIN dest |->
         LET RECURSIVE upTo(_)
             upTo(elem) ==
                 IF elem = endIt
                 THEN 0
                 ELSE contribution(elem, globalIdx) + upTo(elem + 1)
         IN  upTo(0)]

\* C30: the square of the returned norm is the square norm of the residual
\* of the whole grid, whatever the number of processes the grid is
\* decomposed into.
C30_NormOfReducedResidual ==
    Returned => result2 = two_norm2(singleProcessResidual)

\* the DOFs of this process that elements of another process touch as well
sharedDofs ==
    { globalIdx \in DOMAIN dest :
          0 \in sharers(globalIdx) /\ Cardinality(sharers(globalIdx)) > 1 }

\* C31: after the reduction over the processes, the entry of dest of
\* every DOF shared between partitions is the sum of the contributions of
\* all the elements that touch the DOF, each counted once, which is the
\* entry the residual of the grid on one process has.
C31_SharedEntriesSummedOnce ==
    Returned =>
        \A globalIdx \in sharedDofs :
            dest[globalIdx] = singleProcessResidual[globalIdx]

\* two threads have assembled a grid of two processes, and a shared DOF
\* holds more than what this process added to it
C31_Witness ==
    /\ Returned
    /\ numThreads = 2
    /\ \E globalIdx \in sharedDofs :
           /\ dest[globalIdx] # 0
           /\ dest[globalIdx] # sequentialResidual(0)[globalIdx]

(***************************************************************************)
(* Properties of the controller over a whole solve.                        *)
(***************************************************************************)
\* C32: newtonProceed returns false whenever it is asked with
\* _numSteps = _maxSteps, so an iteration that newtonProceed has granted
\* never takes _numSteps above _maxSteps: a solve that asks before every
\* iteration ends after at most _maxSteps iterations.
C32_AtMostMaxSteps ==
    [][/\ (ret'.op = "newtonProceed" /\ numSteps = maxSteps) => ~ret'.val
       /\ (ret'.op = "newtonEndStep" /\ phase = "step") =>
              numSteps' <= maxSteps]_vars

\* the iterate after _maxSteps iterations is fully physical and not
\* converged, and newtonProceed has refused another iteration
C32_Witness ==
    /\ Proceeded
    /\ ~ret.val
    /\ ret.phys
    /\ numSteps = maxSteps
    /\ curPhysicalness = PhysOne
    /\ ~DefectWithinTolerance

\* C33: _physicalness(u) gives for an iterate the value newtonEndStep got
\* for it. When newtonProceed returns false with 2 <= _numSteps <=
\* _maxSteps, newtonConverged() is true afterwards if the convergence check
\* stopped the solve, and false if the physicalness was evaluated and
\* rejected (not positive, below _numSteps/(_maxSteps - 1), or on exhausted
\* probation).
C33_ConvergedTellsTheCause ==
    [][\A u \in Physicalnesses :
           (/\ newtonProceed(u)
            /\ u = curPhysicalness
            /\ 2 <= numSteps
            /\ numSteps <= maxSteps
            /\ ~ret'.val)
               => /\ ~ret'.phys => newtonConverged'
                  /\ ret'.phys => ~newtonConverged']_vars

\* an iterate with the defect within the tolerance has been rejected for
\* its physicalness
C33_Witness ==
    /\ Proceeded
    /\ ~ret.val
    /\ ret.phys
    /\ 2 <= numSteps
    /\ numSteps <= maxSteps
    /\ DefectWithinTolerance
    /\ curPhysicalness > 0
    /\ ~newtonConverged

\* C34: from one newtonBegin to the next, _maxPhysicalness stays within
\* [0, 1] and never decreases; it is written only by the return of
\* newtonProceed for a physicalness that is not below it, which it becomes;
\* and when newtonProceed has evaluated a physicalness and returned true,
\* _maxPhysicalness is not below that physicalness, so, never decreasing,
\* it stays at or above every such value of the solve.
C34_MaxPhysicalnessGrows ==
    [][/\ 0 <= maxPhysicalness'
       /\ maxPhysicalness' <= PhysOne
       /\ ret'.op # "newtonBegin" => maxPhysicalness' >= maxPhysicalness
       /\ (ret'.op # "newtonBegin" /\ maxPhysicalness' # maxPhysicalness) =>
              \E u \in Physicalnesses :
                  /\ newtonProceed(u)
                  /\ ret'.val
                  /\ clampPhysicalness(u) >= maxPhysicalness
                  /\ maxPhysicalness' = clampPhysicalness(u)
       /\ (ret'.op = "newtonProceed" /\ ret'.val /\ ret'.phys) =>
              maxPhysicalness' >= curPhysicalness']_vars

\* newtonProceed has let an iterate pass that is less physical than an
\* earlier one of the solve
C34_Witness ==
    /\ Proceeded
    /\ ret.val
    /\ ret.phys
    /\ 0 < curPhysicalness
    /\ curPhysicalness < maxPhysicalness

\* C35: when globalResidual(dest, u) is left, by its return or by an
\* exception of the evaluation of an element, the solution of time index
\* 0 is what it was at the call; the solution of time index 1 is not
\* written at any time.
C35_SolutionLeftAsFound ==
    [][/\ (tmp # NoCopy /\ region' \in {"outside", "thrown"}) =>
              solution'[0] = tmp
       /\ solution'[1] = solution[1]]_vars

(***************************************************************************)
(* The cache under all the operations that change it: those of SpecCache,  *)
(* updateFailed() and resizeAndResetIntensiveQuantitiesCache_().           *)
(***************************************************************************)
NextHistory ==
    \/ NextCache
    \/ updateFailed
    \/ resizeAndResetIntensiveQuantitiesCache

SpecHistory == InitCache /\ [][NextHistory]_vars

\* the last call was a get or a getHint that returned an entry
EntryReturned ==
    /\ cacheRet.op \in {"cachedIntensiveQuantities", "thermodynamicHint"}
    /\ cacheRet.val # Null

\* C36: after any sequence of update, setIntensiveQuantitiesCacheEntryValidity
\* (with true or false), shift, updateFailed and resize, the value of an
\* entry that cachedIntensiveQuantities or thermodynamicHint returns has
\* been passed to update for that DOF before: an entry that was never
\* written is not returned.
C36_OnlyWrittenValuesReturned ==
    EntryReturned => Deref(cacheRet.val) \in written[cacheRet.globalIdx]

\* C36, amended: the entry returned is up to date and holds a value passed
\* to update for that DOF before, or the default-constructed value; and an
\* up-to-date entry with a value never passed to update for its DOF comes
\* from setIntensiveQuantitiesCacheEntryValidity(.., true) on that entry,
\* or is a copy of such an entry of the same DOF.
C36_WrittenOrMarkedValid ==
    [][/\ EntryReturned' =>
              LET r == cacheRet'.val IN
              /\ r[2] = cacheRet'.globalIdx
              /\ intensiveQuantityCacheUpToDate'[r[1]][r[2]]
              /\ \/ intensiveQuantityCache'[r[1]][r[2]] \in written'[r[2]]
                 \/ intensiveQuantityCache'[r[1]][r[2]] = 0
       /\ \A t \in TimeIndices :
              \A g \in DOMAIN intensiveQuantityCacheUpToDate'[t] :
                  (/\ intensiveQuantityCacheUpToDate'[t][g]
                   /\ intensiveQuantityCache'[t][g] \notin written'[g]) =>
                      \/ \E t2 \in TimeIndices :
                             /\ intensiveQuantityCacheUpToDate[t2][g]
                             /\ intensiveQuantityCache[t2][g]
                                    = intensiveQuantityCache'[t][g]
                      \/ /\ cacheRet'.op
                                = "setIntensiveQuantitiesCacheEntryValidity"
                         /\ cacheRet'.arg = TRUE
                         /\ cacheRet'.globalIdx = g
                         /\ cacheRet'.timeIdx = t]_vars

\* two values have been passed to update for a DOF, and the second one is
\* returned from time index 1
C36_Witness ==
    /\ EntryReturned
    /\ cacheRet.val[1] = 1
    /\ written[cacheRet.globalIdx] = {1, 2}
    /\ Deref(cacheRet.val) = 2

SolutionAndCacheUnchanged ==
    /\ solution' = solution
    /\ intensiveQuantityCache' = intensiveQuantityCache
    /\ intensiveQuantityCacheUpToDate' = intensiveQuantityCacheUpToDate

C39_AdvanceShiftsTheHistory ==
    [][/\ (cacheRet'.op = "advanceTimeLevel" /\ historySize = 2) =>
              /\ solution'[1] = solution'[0]
              /\ \A g \in DOMAIN intensiveQuantityCacheUpToDate'[1] :
                     intensiveQuantityCacheUpToDate'[1][g] =>
                         /\ intensiveQuantityCacheUpToDate[0][g]
                         /\ intensiveQuantityCache'[1][g]
                                = intensiveQuantityCache[0][g]
              /\ \A g \in DOMAIN intensiveQuantityCacheUpToDate'[0] :
                     ~intensiveQuantityCacheUpToDate'[0][g]
       /\ (/\ cacheRet.op = "advanceTimeLevel"
           /\ historySize = 2
           /\ cacheRet'.op = "cachedIntensiveQuantities"
           /\ cacheRet'.timeIdx = 0) => cacheRet'.val = Null]_vars

====
